---- MODULE Spec2Model ----
(***************************************************************************)
(* Screenplay editor: the block editing state machine (Enter, Backspace,   *)
(* Tab, format change, content change, scene reorder, undo/redo), the      *)
(* comment highlight merge and the comment card layout.                    *)
(*                                                                         *)
(* Text is a sequence of one-character strings.  Block ids are positive    *)
(* integers drawn from a counter (the code draws them from uuidv4); 0      *)
(* stands for null.  A block's number 0 stands for undefined.              *)
(***************************************************************************)
EXTENDS Integers, Sequences, FiniteSets, TLC

VARIABLES
    blocks,            \* state.blocks: the Block Store
    undoStack,         \* state.undoStack
    redoStack,         \* state.redoStack
    activeBlock,       \* state.activeBlock (0 = null)
    showSuggestions,   \* showSuggestions of the active block's component
    lastKeyPressTime,  \* useEnterKeyLogic: lastKeyPressTime.current
    now,               \* Date.now()
    nextId,            \* next value the id generator hands out
    scenes,            \* useScenes: the navigator's scene list (ids, in order)
    pendingSync,       \* handleContentChange calls suspended at an await
    lastOp,            \* the handler that ran last, with its inputs and result
    steps,             \* number of handler runs and clock advances so far
    lastEnter,         \* when and on which block handleEnterKey last ran to its Date.now()
    blockComments,     \* input of the highlight merge
    highlightRanges,   \* output of the highlight merge
    layoutIn,          \* input of the card layout pass
    positioned,        \* output of the card layout pass
    stateComments,     \* state.comments: the Comment Anchor Store
    rendered,          \* state.comments as the callbacks of the last render see it
    remote,            \* the comments collection of the persisted store
    inflight,          \* calls suspended at an await of the persisted store
    submitHighlights,  \* temporary ids whose highlight handleCommentSubmit has applied
    nextCommentId,     \* next value the comment, reply and reaction id generators hand out
    lastCall,          \* the comment operation or completion that ran last
    commentSteps,      \* number of comment operations and completions so far
    hasChanges,        \* ScreenplayEditor: hasChanges
    isSceneReordering, \* ScreenplayEditor: isSceneReordering
    autosaveTimer,     \* autosaveTimerRef.current: time the timer fires at (0 = none)
    lastAutosave,      \* the step of the autosave machinery that ran last
    pendingTimers,     \* firing times of the timeouts that are set and not cleared
    loadedSceneDocuments, \* fetchScreenplayContent: the scene documents the store was built from
    pointerInside,     \* the pointer is over the text of the highlighted range
    enteredSpan,       \* generation of the span whose mouseenter was the last hover event (0 = none)
    spanGeneration,    \* generation of the span the highlight effect has last put in the DOM
    hoverTimeoutRef,   \* hoverTimeoutRef.current: time the timer fires at (0 = none)
    hoverTimers,       \* firing times of the hover timeouts that are set and not cleared
    tooltipVisible,    \* tooltipState.visible
    hoverSince,        \* when the pointer came onto the range it is over
    focusAttempts,     \* focusAttempts.current, by block id
    focusTimers,       \* attemptFocus callbacks that are scheduled, as [id, at]
    blockRefs,         \* ids of the blocks whose element is in blockRefs.current
    focusLog,          \* by block id: what the focus request for it has done so far
    showResolved,      \* CommentsPanel: showResolved
    filteredComments,  \* CommentsPanel: filteredComments of the last render
    shownBefore,       \* filteredComments of the last render with showResolved on
    lastPanel          \* the step of the comments panel that ran last

editorVars == <<blocks, undoStack, redoStack, activeBlock, showSuggestions,
                lastKeyPressTime, now, nextId, scenes, pendingSync, lastOp, steps,
                lastEnter>>
mergeVars == <<blockComments, highlightRanges>>
layoutVars == <<layoutIn, positioned>>
commentVars == <<stateComments, rendered, remote, inflight, submitHighlights, nextCommentId,
                 lastCall, commentSteps>>
autosaveVars == <<hasChanges, isSceneReordering, autosaveTimer, lastAutosave, pendingTimers>>
loadVars == <<loadedSceneDocuments>>
hoverVars == <<pointerInside, enteredSpan, spanGeneration, hoverTimeoutRef, hoverTimers,
               tooltipVisible, hoverSince>>
focusVars == <<focusAttempts, focusTimers, blockRefs, focusLog>>
panelVars == <<showResolved, filteredComments, shownBefore, lastPanel>>
uiVars == <<hoverVars, focusVars, panelVars>>
vars == <<editorVars, mergeVars, layoutVars, commentVars, autosaveVars, loadVars, uiVars>>

(***************************************************************************)
(* Bounds of the model.                                                    *)
(***************************************************************************)
MaxBlocks == 5
MaxUndo == 2
MaxFreshIds == 2
MaxTicks == 1
MaxSteps == 3

(***************************************************************************)
(* Text.                                                                   *)
(***************************************************************************)
LowerChars == <<"a", "b", "c", "d", "e", "f", "g", "h", "i", "j", "k", "l", "m",
                "n", "o", "p", "q", "r", "s", "t", "u", "v", "w", "x", "y", "z">>
UpperChars == <<"A", "B", "C", "D", "E", "F", "G", "H", "I", "J", "K", "L", "M",
                "N", "O", "P", "Q", "R", "S", "T", "U", "V", "W", "X", "Y", "Z">>

UpperChar(c) ==
    IF \E i \in 1..26 : LowerChars[i] = c
    THEN UpperChars[CHOOSE i \in 1..26 : LowerChars[i] = c]
    ELSE c

\* String.prototype.toUpperCase
toUpperCase(s) == [i \in 1..Len(s) |-> UpperChar(s[i])]

RECURSIVE trimStart(_)
trimStart(s) ==
    IF s # <<>> /\ Head(s) = " " THEN trimStart(Tail(s)) ELSE s

RECURSIVE trimEnd(_)
trimEnd(s) ==
    IF s # <<>> /\ s[Len(s)] = " " THEN trimEnd(SubSeq(s, 1, Len(s) - 1)) ELSE s

\* String.prototype.trim
trim(s) == trimEnd(trimStart(s))

\* String.prototype.substring(0, k) and substring(k)
substringTo(s, k) == SubSeq(s, 1, k)
substringFrom(s, k) == SubSeq(s, k + 1, Len(s))

startsWith(s, p) == Len(s) >= Len(p) /\ SubSeq(s, 1, Len(p)) = p
endsWith(s, p) == Len(s) >= Len(p) /\ SubSeq(s, Len(s) - Len(p) + 1, Len(s)) = p

EmptyText == <<>>

(***************************************************************************)
(* Blocks.                                                                 *)
(***************************************************************************)
BLOCK_TYPES == <<"scene-heading", "action", "character", "dialogue",
                 "parenthetical", "transition", "shot">>

NullId == 0

Block(id, type, content) ==
    [id |-> id, type |-> type, content |-> content, number |-> 0]

\* blocks.findIndex(b => b.id === id), 1-based; 0 when there is none
findIndex(bs, id) ==
    IF \E i \in 1..Len(bs) : bs[i].id = id
    THEN CHOOSE i \in 1..Len(bs) :
            bs[i].id = id /\ \A j \in 1..(i - 1) : bs[j].id # id
    ELSE 0

\* [...bs] with arr.splice(i, 0, b): insert b so that it becomes element i
spliceInsert(bs, i, b) ==
    SubSeq(bs, 1, i - 1) \o <<b>> \o SubSeq(bs, i, Len(bs))

\* [...bs] with arr.splice(i, 1, b) or arr[i] = b: replace element i
spliceReplace(bs, i, b) == [bs EXCEPT ![i] = b]

\* bs.filter((_, index) => index !== i)
removeAt(bs, i) == SubSeq(bs, 1, i - 1) \o SubSeq(bs, i + 1, Len(bs))

CountType(bs, k, t) == Cardinality({j \in 1..k : bs[j].type = t})

\* updateBlockNumbers: scene headings and dialogue blocks carry their ordinal
updateBlockNumbers(bs) ==
    [i \in 1..Len(bs) |->
        [bs[i] EXCEPT !.number =
            IF bs[i].type = "scene-heading" THEN CountType(bs, i, "scene-heading")
            ELSE IF bs[i].type = "dialogue" THEN CountType(bs, i, "dialogue")
            ELSE 0]]


(***************************************************************************)
(* Editor state (useEditorState): the part of EditorState the handlers      *)
(* read and write, as a record [blocks, undoStack, redoStack].  Each        *)
(* operator below is one setState updater.                                  *)
(***************************************************************************)
EditorState == [blocks |-> blocks, undoStack |-> undoStack, redoStack |-> redoStack]

\* addToHistory(blocks): the argument is ignored, the updater pushes prev.blocks
addToHistory(prev) ==
    [prev EXCEPT !.undoStack = Append(prev.undoStack, prev.blocks),
                 !.redoStack = <<>>]

\* updateBlocks(newBlocks)
updateBlocks(prev, newBlocks) ==
    [prev EXCEPT !.blocks = updateBlockNumbers(newBlocks)]

\* undo that does not push the live store on the redo stack
handleUndoForgetsLive(prev) ==
    IF Len(prev.undoStack) = 0 THEN prev
    ELSE [blocks |-> prev.undoStack[Len(prev.undoStack)],
          redoStack |-> prev.redoStack,
          undoStack |-> SubSeq(prev.undoStack, 1, Len(prev.undoStack) - 1)]

handleUndo(prev) ==
    IF Len(prev.undoStack) = 0 THEN prev
    ELSE [blocks |-> prev.undoStack[Len(prev.undoStack)],
          redoStack |-> Append(prev.redoStack, prev.blocks),
          undoStack |-> SubSeq(prev.undoStack, 1, Len(prev.undoStack) - 1)]

handleRedo(prev) ==
    IF Len(prev.redoStack) = 0 THEN prev
    ELSE [blocks |-> prev.redoStack[Len(prev.redoStack)],
          undoStack |-> Append(prev.undoStack, prev.blocks),
          redoStack |-> SubSeq(prev.redoStack, 1, Len(prev.redoStack) - 1)]

(***************************************************************************)
(* Format classifier and next-block rule (utils/blockUtils).                *)
(***************************************************************************)
ScenePrefixes == { <<"I", "N", "T", ".">>,
                   <<"E", "X", "T", ".">>,
                   <<"I", "N", "T", ".", "/", "E", "X", "T", ".">>,
                   <<"E", "X", "T", ".", "/", "I", "N", "T", ".">>,
                   <<"I", "/", "E", ".">> }

NoFormat == "none"

\* detectFormat(text): "scene-heading" for a scene-heading prefix, else no match
detectFormat(text) ==
    IF \E p \in ScenePrefixes : startsWith(toUpperCase(trimStart(text)), p)
    THEN "scene-heading"
    ELSE NoFormat

\* getNextBlockType(currentType, textBefore, false)
getNextBlockType(currentType, textBefore) ==
    IF detectFormat(textBefore) # NoFormat THEN detectFormat(textBefore) ELSE currentType

(***************************************************************************)
(* useEnterKeyLogic.handleEnterKey(blockId, element).  bs is the blocks     *)
(* array of the handler's closure, text the element's textContent,          *)
(* caretPos the selection's start offset, newId the id uuidv4 returns.      *)
(* The result is the returned block id (the focus target) and the store    *)
(* handed to updateBlocks.                                                  *)
(***************************************************************************)
DoubleEnterWindow == 500

\* the window test written with <=
isDoubleEnterInclusive(nowMs, lastMs) == nowMs - lastMs <= DoubleEnterWindow

isDoubleEnter(nowMs, lastMs) == nowMs - lastMs < DoubleEnterWindow

\* the transition branch that always stores the text before the caret
EnterTransitionTextBefore(bs, currentIndex, textBefore, textAfter, newId) ==
    LET newBlock == Block(newId, "scene-heading", EmptyText)
        kept == [bs[currentIndex] EXCEPT !.content = toUpperCase(trim(textBefore))]
    IN  [focus |-> newId,
         blocks |-> spliceInsert(spliceReplace(bs, currentIndex, kept), currentIndex + 1, newBlock)]

EnterTransition(bs, currentIndex, textBefore, textAfter, newId) ==
    LET currentBlock == bs[currentIndex]
        newBlock == Block(newId, "scene-heading", EmptyText)
        kept == IF trim(textBefore) # EmptyText
                THEN [currentBlock EXCEPT !.content = toUpperCase(trim(textBefore))]
                ELSE [currentBlock EXCEPT !.content = toUpperCase(trim(currentBlock.content))]
    IN  [focus |-> newId,
         blocks |-> spliceInsert(spliceReplace(bs, currentIndex, kept), currentIndex + 1, newBlock)]

EnterCharacterEmpty(bs, currentIndex, newId) ==
    LET newBlockType ==
            IF currentIndex + 1 <= Len(bs) /\ bs[currentIndex + 1].type = "dialogue"
            THEN "action" ELSE "dialogue"
        newBlock == Block(newId, newBlockType, EmptyText)
    IN  [focus |-> newId, blocks |-> spliceReplace(bs, currentIndex, newBlock)]

\* the kept character cue without toUpperCase()
EnterCharacterKeepsCase(bs, currentIndex, textBefore, textAfter, dbl, newId) ==
    LET currentBlock == bs[currentIndex]
        newBlock == Block(newId, IF dbl THEN "action" ELSE "dialogue", trim(textAfter))
        kept == [currentBlock EXCEPT !.content = trim(textBefore)]
    IN  [focus |-> newId,
         blocks |-> spliceInsert(spliceReplace(bs, currentIndex, kept), currentIndex + 1, newBlock)]

EnterCharacter(bs, currentIndex, textBefore, textAfter, dbl, newId) ==
    LET currentBlock == bs[currentIndex]
        newBlock == Block(newId, IF dbl THEN "action" ELSE "dialogue", trim(textAfter))
        kept == [currentBlock EXCEPT !.content = toUpperCase(trim(textBefore))]
    IN  [focus |-> newId,
         blocks |-> spliceInsert(spliceReplace(bs, currentIndex, kept), currentIndex + 1, newBlock)]

\* the conversion without its replace-in-place case
EnterDialogueDoubleAlwaysSplits(bs, currentIndex, textBefore, textAfter, newId) ==
    LET currentBlock == bs[currentIndex]
        newBlock == Block(newId, "action", trim(textAfter))
        kept == [currentBlock EXCEPT !.content = trim(textBefore)]
    IN  [focus |-> newId,
         blocks |-> spliceInsert(spliceReplace(bs, currentIndex, kept),
                                 currentIndex + 1, newBlock)]

EnterDialogueDouble(bs, currentIndex, textBefore, textAfter, newId) ==
    LET currentBlock == bs[currentIndex]
        newBlock == Block(newId, "action", trim(textAfter))
        kept == [currentBlock EXCEPT !.content = trim(textBefore)]
    IN  [focus |-> newId,
         blocks |-> IF trim(textBefore) = EmptyText /\ trim(textAfter) = EmptyText
                    THEN spliceReplace(bs, currentIndex, newBlock)
                    ELSE spliceInsert(spliceReplace(bs, currentIndex, kept),
                                      currentIndex + 1, newBlock)]

\* /^\)/ removed from the text after the caret
stripLeadingParen(s) == IF startsWith(s, <<")">>) THEN Tail(s) ELSE s

EnterParenthetical(bs, currentIndex, textBefore, textAfter, newId) ==
    LET currentBlock == bs[currentIndex]
        finalContent ==
            IF startsWith(textBefore, <<"(">>) /\ ~endsWith(textBefore, <<")">>)
            THEN textBefore \o <<")">>
            ELSE IF ~startsWith(textBefore, <<"(">>) /\ endsWith(textBefore, <<")">>)
            THEN <<"(">> \o textBefore
            ELSE textBefore
        newBlock == Block(newId, "dialogue", trim(stripLeadingParen(textAfter)))
        kept == [currentBlock EXCEPT !.content = finalContent]
    IN  [focus |-> newId,
         blocks |-> spliceInsert(spliceReplace(bs, currentIndex, kept), currentIndex + 1, newBlock)]

\* the default branch refusing to split a block whose text is empty
EnterDefaultKeepsEmptyBlock(bs, currentIndex, textBefore, textAfter, newId) ==
    LET currentBlock == bs[currentIndex]
        nextBlockType == getNextBlockType(currentBlock.type, textBefore)
        newBlock == Block(newId, nextBlockType, textAfter)
        kept == [currentBlock EXCEPT !.content = textBefore]
    IN  IF textBefore = EmptyText /\ textAfter = EmptyText
        THEN [focus |-> bs[currentIndex].id, blocks |-> bs]
        ELSE [focus |-> newId,
              blocks |-> spliceInsert(spliceReplace(bs, currentIndex, kept),
                                      currentIndex + 1, newBlock)]

EnterDefault(bs, currentIndex, textBefore, textAfter, newId) ==
    LET currentBlock == bs[currentIndex]
        nextBlockType == getNextBlockType(currentBlock.type, textBefore)
        newBlock == Block(newId, nextBlockType, textAfter)
        kept == [currentBlock EXCEPT !.content = textBefore]
    IN  [focus |-> newId,
         blocks |-> spliceInsert(spliceReplace(bs, currentIndex, kept), currentIndex + 1, newBlock)]

\* the branches of handleEnterKey once currentBlock has been found
handleEnterKey(bs, blockId, text, caretPos, dbl, newId) ==
    LET currentIndex == findIndex(bs, blockId)
        currentBlock == bs[currentIndex]
        textBefore == substringTo(text, caretPos)
        textAfter == substringFrom(text, caretPos)
    IN  IF currentBlock.type = "transition"
        THEN EnterTransition(bs, currentIndex, textBefore, textAfter, newId)
        ELSE IF currentBlock.type = "character"
        THEN IF trim(textBefore) = EmptyText /\ trim(textAfter) = EmptyText
             THEN EnterCharacterEmpty(bs, currentIndex, newId)
             ELSE EnterCharacter(bs, currentIndex, textBefore, textAfter, dbl, newId)
        ELSE IF dbl /\ currentBlock.type = "dialogue" /\ trim(textBefore) = EmptyText
        THEN EnterDialogueDouble(bs, currentIndex, textBefore, textAfter, newId)
        ELSE IF currentBlock.type = "parenthetical"
        THEN EnterParenthetical(bs, currentIndex, textBefore, textAfter, newId)
        ELSE EnterDefault(bs, currentIndex, textBefore, textAfter, newId)

(***************************************************************************)
(* useBackspaceKeyLogic.handleBackspaceInEmptyBlock(blockId).               *)
(***************************************************************************)
filterOutId(bs, blockId) ==
    LET keep == {i \in 1..Len(bs) : bs[i].id # blockId}
        RECURSIVE pick(_)
        pick(i) == IF i > Len(bs) THEN <<>>
                   ELSE IF i \in keep THEN <<bs[i]>> \o pick(i + 1)
                   ELSE pick(i + 1)
    IN  pick(1)

\* the guard on the first block written as currentIndex < 0
backspaceDeletesFirstToo(bs, blockId) ==
    IF Len(bs) <= 1 THEN FALSE
    ELSE IF findIndex(bs, blockId) < 1 THEN FALSE
    ELSE TRUE

\* TRUE when the handler deletes (it returns true), FALSE for its early returns
backspaceDeletes(bs, blockId) ==
    IF Len(bs) <= 1 THEN FALSE
    ELSE IF findIndex(bs, blockId) <= 1 THEN FALSE
    ELSE TRUE

\* the deletion written as splice(currentIndex, 1) with no guard on the index:
\* for an id that is not found (index -1) splice removes the last block
handleBackspaceInEmptyBlockSplices(prev, bs, blockId) ==
    IF Len(bs) <= 1 \/ findIndex(bs, blockId) = 1 THEN prev
    ELSE IF findIndex(bs, blockId) = 0
    THEN updateBlocks(addToHistory(prev), SubSeq(bs, 1, Len(bs) - 1))
    ELSE updateBlocks(addToHistory(prev), filterOutId(bs, blockId))

handleBackspaceInEmptyBlock(prev, bs, blockId) ==
    IF backspaceDeletes(bs, blockId)
    THEN updateBlocks(addToHistory(prev), filterOutId(bs, blockId))
    ELSE prev


(***************************************************************************)
(* useBlockFormatting.handleFormatChange(type), on the active block.        *)
(***************************************************************************)
\* content.replace(/^\(|\)$/g, '')
stripParens(s) ==
    LET a == IF startsWith(s, <<"(">>) THEN Tail(s) ELSE s
    IN  IF endsWith(a, <<")">>) THEN SubSeq(a, 1, Len(a) - 1) ELSE a

\* /^FADE (IN|OUT)|^DISSOLVE/i.test(s)
isFadeOrDissolve(s) ==
    \/ startsWith(toUpperCase(s), <<"F", "A", "D", "E", " ", "I", "N">>)
    \/ startsWith(toUpperCase(s), <<"F", "A", "D", "E", " ", "O", "U", "T">>)
    \/ startsWith(toUpperCase(s), <<"D", "I", "S", "S", "O", "L", "V", "E">>)

\* the content after the scene-heading / parenthetical chain of branches
formatContentFirst(currentBlock, type) ==
    LET content == currentBlock.content IN
    IF type = "scene-heading" /\ currentBlock.type # "scene-heading"
    THEN IF trim(content) = EmptyText THEN EmptyText ELSE toUpperCase(content)
    ELSE IF type = "scene-heading"
    THEN toUpperCase(content)
    ELSE IF type = "parenthetical"
    THEN IF trim(content) = EmptyText \/ trim(content) = <<"(", ")">>
         THEN <<"(", ")">>
         ELSE IF ~startsWith(trim(content), <<"(">>) \/ ~endsWith(trim(content), <<")">>)
         THEN <<"(">> \o stripParens(trim(content)) \o <<")">>
         ELSE content
    ELSE IF currentBlock.type = "parenthetical"
    THEN trim(stripParens(content))
    ELSE content

\* newContent of handleFormatChange
formatContent(currentBlock, type) ==
    LET c1 == formatContentFirst(currentBlock, type)
        c2 == IF type = "character" /\ currentBlock.type # "character"
              THEN toUpperCase(c1) ELSE c1
    IN  IF type = "transition" /\ currentBlock.type # "transition"
        THEN IF trim(c2) = EmptyText THEN EmptyText
             ELSE IF ~endsWith(toUpperCase(c2), <<"T", "O", ":">>)
                     /\ ~isFadeOrDissolve(toUpperCase(c2))
             THEN toUpperCase(c2) \o <<" ", "T", "O", ":">>
             ELSE toUpperCase(c2)
        ELSE IF type = "transition"
        THEN toUpperCase(c2)
        ELSE c2

\* newBlockId of handleFormatChange
\* a retype that never mints an id
formatBlockIdKeeps(currentBlock, type, newId) == currentBlock.id

formatBlockId(currentBlock, type, newId) ==
    IF type = "scene-heading" /\ currentBlock.type # "scene-heading"
    THEN newId ELSE currentBlock.id

handleFormatChange(prev, bs, active, type, newId) ==
    IF active = NullId THEN prev
    ELSE LET hist == addToHistory(prev)
             idx == findIndex(bs, active)
         IN  IF idx = 0 THEN hist
             ELSE updateBlocks(hist,
                    [i \in 1..Len(bs) |->
                        IF bs[i].id = active
                        THEN [bs[i] EXCEPT !.id = formatBlockId(bs[idx], type, newId),
                                           !.type = type,
                                           !.content = formatContent(bs[idx], type)]
                        ELSE bs[i]])

(***************************************************************************)
(* useTabKeyLogic.handleTabKey().                                           *)
(***************************************************************************)
indexOfType(t) ==
    IF \E i \in 1..Len(BLOCK_TYPES) : BLOCK_TYPES[i] = t
    THEN CHOOSE i \in 1..Len(BLOCK_TYPES) : BLOCK_TYPES[i] = t
    ELSE 0

\* BLOCK_TYPES[(currentIndex + 1) % BLOCK_TYPES.length], indices 1-based here
\* the next type without the modulo: the last type stays
nextTypeNoWrap(t) ==
    BLOCK_TYPES[IF indexOfType(t) < Len(BLOCK_TYPES) THEN indexOfType(t) + 1 ELSE indexOfType(t)]

nextType(t) == BLOCK_TYPES[(indexOfType(t) % Len(BLOCK_TYPES)) + 1]

handleTabKey(prev, bs, active, newId) ==
    IF active = NullId \/ findIndex(bs, active) = 0 THEN prev
    ELSE handleFormatChange(prev, bs, active, nextType(bs[findIndex(bs, active)].type), newId)

(***************************************************************************)
(* useBlockContentSync.handleContentChange(id, newContent, forcedType).     *)
(* forcedType NoFormat stands for an absent argument.  The result is the    *)
(* editor state after the synchronous part and, when the handler suspends   *)
(* at the scene-heading registry, the store it hands to updateBlocks when   *)
(* it resumes.                                                              *)
(***************************************************************************)
PrefixPatterns == { <<"I", "N", "T", ".">>,
                    <<"E", "X", "T", ".">>,
                    <<"I", "N", "T", ".", "/", "E", "X", "T", ".">>,
                    <<"E", "X", "T", ".", "/", "I", "N", "T", ".">>,
                    <<"I", "/", "E", ".">> }

isPrefixOnly(text) == toUpperCase(trim(text)) \in PrefixPatterns

\* the removal test on the text as typed, without trim()
contentDeletesUntrimmed(bs, id, newContent, forcedType) ==
    /\ findIndex(bs, id) # 0
    /\ newContent = EmptyText
    /\ Len(bs) > 1
    /\ forcedType = NoFormat

contentDeletes(bs, id, newContent, forcedType) ==
    /\ findIndex(bs, id) # 0
    /\ trim(newContent) = EmptyText
    /\ Len(bs) > 1
    /\ forcedType = NoFormat

effectiveType(currentBlock, newContent, forcedType) ==
    IF forcedType # NoFormat THEN forcedType
    ELSE IF detectFormat(newContent) # NoFormat THEN detectFormat(newContent)
    ELSE currentBlock.type

\* the handler reaches "await countSceneHeadingsInEditor()" before updateBlocks
contentAwaitsRegistry(type, newContent) ==
    /\ type = "scene-heading"
    /\ Len(toUpperCase(trim(newContent))) > 0
    /\ ~isPrefixOnly(toUpperCase(trim(newContent)))

contentUpdatedBlocks(bs, idx, newContent, type, newId) ==
    LET edited == spliceReplace(bs, idx, [bs[idx] EXCEPT !.content = newContent, !.type = type])
    IN  IF type = "character" /\ bs[idx].type # "character" /\ trim(newContent) # EmptyText
        THEN spliceInsert(edited, idx + 1, Block(newId, "dialogue", EmptyText))
        ELSE edited

\* blockToFocusId: the dialogue block inserted after a new character block
contentBlockToFocus(bs, id, newContent, forcedType, newId) ==
    LET idx == findIndex(bs, id) IN
    IF /\ idx # 0
       /\ ~contentDeletes(bs, id, newContent, forcedType)
       /\ effectiveType(bs[idx], newContent, forcedType) = "character"
       /\ bs[idx].type # "character"
       /\ trim(newContent) # EmptyText
    THEN newId
    ELSE NullId

NoPending == <<>>

handleContentChange(prev, bs, id, newContent, forcedType, newId) ==
    LET idx == findIndex(bs, id) IN
    IF idx = 0 THEN [state |-> prev, pending |-> NoPending]
    ELSE IF contentDeletes(bs, id, newContent, forcedType)
    THEN [state |-> updateBlocks(addToHistory(prev), removeAt(bs, idx)), pending |-> NoPending]
    ELSE LET type == effectiveType(bs[idx], newContent, forcedType)
             updated == contentUpdatedBlocks(bs, idx, newContent, type, newId)
         IN  IF contentAwaitsRegistry(type, newContent)
             THEN [state |-> addToHistory(prev), pending |-> <<updated>>]
             ELSE [state |-> updateBlocks(addToHistory(prev), updated), pending |-> NoPending]

(***************************************************************************)
(* ScreenplayEditor.handleScenesReordered(reorderedScenes).                 *)
(***************************************************************************)
\* index of the scene-heading block that opens the scene block i belongs to; 0 if none
sceneStart(bs, i) ==
    IF \E j \in 1..i : bs[j].type = "scene-heading"
    THEN CHOOSE j \in 1..i :
            bs[j].type = "scene-heading"
            /\ \A k \in (j + 1)..i : bs[k].type # "scene-heading"
    ELSE 0

\* the map without the set call that follows the loop: the last scene is missing
sceneBlocksOfBeforeLast(bs, sceneId) ==
    LET heads == {j \in 1..Len(bs) : bs[j].type = "scene-heading" /\ bs[j].id = sceneId}
        h == CHOOSE j \in heads : \A k \in heads : k <= j
    IN  IF heads = {} \/ \A k \in (h + 1)..Len(bs) : bs[k].type # "scene-heading" THEN <<>>
        ELSE SubSeq(bs, h, (CHOOSE k \in (h + 1)..Len(bs) :
                              /\ bs[k].type = "scene-heading"
                              /\ \A m \in (h + 1)..(k - 1) : bs[m].type # "scene-heading") - 1)

\* sceneBlocksMap.get(sceneId): the blocks collected under the last heading of that id
sceneBlocksOf(bs, sceneId) ==
    LET heads == {j \in 1..Len(bs) : bs[j].type = "scene-heading" /\ bs[j].id = sceneId}
        h == CHOOSE j \in heads : \A k \in heads : k <= j
        RECURSIVE run(_)
        run(i) == IF i > Len(bs) \/ sceneStart(bs, i) # h THEN <<>>
                  ELSE <<bs[i]>> \o run(i + 1)
    IN  IF heads = {} THEN <<>> ELSE run(h)

\* the reassembly that pushes only the heading block of every scene
reorderBlocksHeadingsOnly(bs, reorderedScenes) ==
    [i \in 1..Len(reorderedScenes) |-> Head(sceneBlocksOf(bs, reorderedScenes[i]))]

RECURSIVE reorderBlocks(_, _)
reorderBlocks(bs, reorderedScenes) ==
    IF reorderedScenes = <<>> THEN <<>>
    ELSE sceneBlocksOf(bs, Head(reorderedScenes)) \o reorderBlocks(bs, Tail(reorderedScenes))

handleScenesReordered(prev, bs, reorderedScenes) ==
    updateBlocks(prev, reorderBlocks(bs, reorderedScenes))

(***************************************************************************)
(* ScreenplayEditor.createActionBlockAfterSceneHeading().                   *)
(***************************************************************************)
createActionBlockAfterSceneHeading(prev, bs, active, newId) ==
    IF active = NullId \/ findIndex(bs, active) = 0 THEN prev
    ELSE updateBlocks(prev, spliceInsert(bs, findIndex(bs, active) + 1,
                                          Block(newId, "action", EmptyText)))

(***************************************************************************)
(* BlockComponentImproved: whether the suggestion surface of the active     *)
(* block is showing after its effect has run.                               *)
(***************************************************************************)
isCharacterBlockAfterDialogue(bs, blockId) ==
    LET blockIndex == findIndex(bs, blockId) IN
    IF blockIndex <= 1 THEN FALSE ELSE bs[blockIndex - 1].type = "dialogue"

suggestionsFor(bs, active) ==
    LET idx == findIndex(bs, active) IN
    IF active = NullId \/ idx = 0 THEN FALSE
    ELSE IF bs[idx].type = "scene-heading" THEN TRUE
    ELSE IF bs[idx].type \in {"transition", "shot"} THEN trim(bs[idx].content) = EmptyText
    ELSE IF bs[idx].type = "character" THEN ~isCharacterBlockAfterDialogue(bs, active)
    ELSE FALSE


(***************************************************************************)
(* Documents the editor starts from (fetchScreenplayContent).               *)
(***************************************************************************)
DefaultActionText ==
    <<"W", "r", "i", "t", "e", " ", "y", "o", "u", "r", " ", "s", "c", "e", "n", "e", " ",
      "d", "e", "s", "c", "r", "i", "p", "t", "i", "o", "n", " ", "h", "e", "r", "e", ".">>

\* the scene document created when the screenplay has no scenes
DefaultSceneDocuments ==
    << [id |-> 1, scene_heading |-> EmptyText, order |-> 0,
        blocks |-> <<Block(2, "action", DefaultActionText)>>] >>

\* a stored screenplay of two scenes
StoredSceneDocuments ==
    << [id |-> 1, scene_heading |-> <<"I", "N", "T", ".", " ", "A">>, order |-> 0,
        blocks |-> <<Block(2, "character", <<"A", "L">>)>>],
       [id |-> 3, scene_heading |-> <<"E", "X", "T", ".", " ", "B">>, order |-> 1,
        blocks |-> <<>>] >>

FirstFreshId == 4

\* "Assemble the full blocks array from scene documents"
RECURSIVE flattenScenes(_)
flattenScenes(sceneDocs) ==
    IF sceneDocs = <<>> THEN <<>>
    ELSE LET sceneDoc == Head(sceneDocs) IN
         << [id |-> sceneDoc.id, type |-> "scene-heading",
             content |-> sceneDoc.scene_heading, number |-> sceneDoc.order + 1] >>
         \o sceneDoc.blocks \o flattenScenes(Tail(sceneDocs))

sceneIds(sceneDocs) == [i \in 1..Len(sceneDocs) |-> sceneDocs[i].id]

(***************************************************************************)
(* Inputs.                                                                  *)
(***************************************************************************)
StartTime == 1000
TickMs == 500

\* what the block's element may hold when Enter is pressed
EnterTexts == { EmptyText, <<" ", "a", "b">> }

\* what the block's element may hold on blur or what a suggestion supplies
ContentTexts == { EmptyText, <<"a">>, <<"i", "n", "t", ".">>,
                  <<"i", "n", "t", ".", " ", "x">> }

IdsEver == 1..(nextId - 1)

NoOp == [name |-> "init", id |-> NullId, text |-> EmptyText, caret |-> 0,
         type |-> NoFormat, focus |-> NullId, found |-> FALSE, gap |-> -1, prev |-> NullId]

NoEnter == [at |-> 0, id |-> NullId]

Orderings(q) ==
    {p \in [1..Len(q) -> {q[i] : i \in 1..Len(q)}] :
        \A i, j \in 1..Len(q) : i # j => p[i] # p[j]}

MergeIdle == /\ blockComments = <<>> /\ highlightRanges = <<>>

FirstCommentId == 2
NoReaction == [id |-> 0, emoji |-> "", userId |-> "", createdAt |-> ""]
NoCall == [op |-> "none", id |-> 0, flag |-> FALSE, prior |-> FALSE, item |-> NoReaction,
           saved |-> <<>>]
NoCallDone == [name |-> "init", call |-> NoCall, ok |-> FALSE]
NoTimer == 0
NoAutosave == [name |-> "init", saving |-> FALSE, mutatedAt |-> 0]

CommentsIdle ==
    /\ stateComments = <<>> /\ rendered = <<>> /\ remote = <<>> /\ inflight = <<>>
    /\ submitHighlights = {} /\ nextCommentId = FirstCommentId
    /\ lastCall = NoCallDone /\ commentSteps = 0

AutosaveIdle ==
    /\ hasChanges = FALSE /\ isSceneReordering = FALSE
    /\ autosaveTimer = NoTimer /\ lastAutosave = NoAutosave /\ pendingTimers = {}
LayoutIdle == /\ layoutIn = <<>> /\ positioned = <<>>

HoverIdle ==
    /\ pointerInside = FALSE /\ enteredSpan = 0 /\ spanGeneration = 1
    /\ hoverTimeoutRef = NoTimer /\ hoverTimers = {} /\ tooltipVisible = FALSE
    /\ hoverSince = 0

FocusIdle ==
    /\ focusAttempts = <<>> /\ focusTimers = {} /\ blockRefs = {} /\ focusLog = <<>>

PanelIdle ==
    /\ showResolved = FALSE /\ filteredComments = <<>> /\ shownBefore = <<>>
    /\ lastPanel = [name |-> "init", delivered |-> <<>>]

UiIdle == HoverIdle /\ FocusIdle /\ PanelIdle

InitDocument(sceneDocs) ==
    /\ loadedSceneDocuments = sceneDocs
    /\ blocks = flattenScenes(sceneDocs)
    /\ scenes = sceneIds(sceneDocs)
    /\ undoStack = <<>>
    /\ redoStack = <<>>
    /\ activeBlock = sceneDocs[1].id
    /\ showSuggestions = suggestionsFor(flattenScenes(sceneDocs), sceneDocs[1].id)
    /\ lastKeyPressTime = 0
    /\ now = StartTime
    /\ nextId = FirstFreshId
    /\ pendingSync = NoPending
    /\ lastOp = NoOp
    /\ steps = 0
    /\ lastEnter = NoEnter

Init ==
    /\ \/ InitDocument(DefaultSceneDocuments)
       \/ InitDocument(StoredSceneDocuments)
    /\ MergeIdle
    /\ LayoutIdle
    /\ CommentsIdle
    /\ AutosaveIdle
    /\ UiIdle

(***************************************************************************)
(* Actions of the editor.                                                   *)
(***************************************************************************)
\* every handler run is recorded and counted
Record(op) ==
    /\ lastOp' = op
    /\ lastEnter' = IF op.name = "enter" /\ op.found THEN [at |-> now, id |-> op.id]
                    ELSE lastEnter
    /\ steps' = steps + 1
    /\ UNCHANGED <<mergeVars, layoutVars, commentVars, autosaveVars, loadVars, uiVars>>

\* the store, the stacks and the suggestion surface after a handler has run
Commit(next) ==
    /\ blocks' = next.blocks
    /\ undoStack' = next.undoStack
    /\ redoStack' = next.redoStack
    /\ Len(next.blocks) <= MaxBlocks
    /\ Len(next.undoStack) <= MaxUndo

\* the effect of BlockComponentImproved re-runs whenever the blocks array changes
Rerender ==
    showSuggestions' = IF blocks' # blocks \/ activeBlock' # activeBlock
                       THEN suggestionsFor(blocks', activeBlock')
                       ELSE showSuggestions

FreshIdAvailable == nextId < FirstFreshId + MaxFreshIds

\* nextId advances exactly when the handler used the id it drew
UseId(used) ==
    /\ used => FreshIdAvailable
    /\ nextId' = IF used THEN nextId + 1 ELSE nextId

usesId(next, id) ==
    \/ \E i \in 1..Len(next.blocks) : next.blocks[i].id = id
    \/ \E k \in 1..Len(pendingSync') : \E i \in 1..Len(pendingSync'[k]) : pendingSync'[k][i].id = id

\* BlockComponentImproved.handleKeyDown with key Enter, then handleEnterKey
KeyDownEnter(blockId, text, caretPos) ==
    /\ ~(blockId = activeBlock /\ showSuggestions)
    /\ IF findIndex(blocks, blockId) = 0
       THEN /\ UNCHANGED <<blocks, undoStack, redoStack, lastKeyPressTime, nextId>>
            /\ Record([NoOp EXCEPT !.name = "enter", !.id = blockId, !.text = text,
                                      !.caret = caretPos, !.focus = blockId])
       ELSE LET dbl == isDoubleEnter(now, lastKeyPressTime)
                res == handleEnterKey(blocks, blockId, text, caretPos, dbl, nextId)
            IN  /\ lastKeyPressTime' = now
                /\ Commit(updateBlocks(addToHistory(EditorState), res.blocks))
                /\ UseId(TRUE)
                /\ Record([NoOp EXCEPT !.name = "enter", !.id = blockId, !.text = text,
                                       !.caret = caretPos, !.focus = res.focus,
                                       !.found = TRUE,
                                       !.type = blocks[findIndex(blocks, blockId)].type,
                                       !.gap = IF lastEnter.id = NullId THEN -1
                                               ELSE now - lastEnter.at,
                                       !.prev = lastEnter.id])
    /\ UNCHANGED <<activeBlock, now, scenes, pendingSync>>
    /\ Rerender

\* handleKeyDown with key Enter while the suggestion surface is showing
KeyDownEnterSuggesting(blockId) ==
    /\ blockId = activeBlock /\ showSuggestions
    /\ Record([NoOp EXCEPT !.name = "enter-suggesting", !.id = blockId])
    /\ UNCHANGED <<blocks, undoStack, redoStack, activeBlock, showSuggestions,
                   lastKeyPressTime, now, nextId, scenes, pendingSync>>

\* handleKeyDown with key Backspace on an element whose text is empty
KeyDownBackspace(blockId) ==
    /\ Commit(handleBackspaceInEmptyBlock(EditorState, blocks, blockId))
    /\ Record([NoOp EXCEPT !.name = "backspace", !.id = blockId,
                           !.found = findIndex(blocks, blockId) # 0])
    /\ UNCHANGED <<activeBlock, lastKeyPressTime, now, nextId, scenes, pendingSync>>
    /\ Rerender

\* handleKeyDown with key Tab
KeyDownTab ==
    LET next == handleTabKey(EditorState, blocks, activeBlock, nextId) IN
    /\ Commit(next)
    /\ Record([NoOp EXCEPT !.name = "tab", !.id = activeBlock,
                           !.found = findIndex(blocks, activeBlock) # 0])
    /\ UNCHANGED <<activeBlock, lastKeyPressTime, now, scenes, pendingSync>>
    /\ UseId(usesId(next, nextId))
    /\ Rerender

\* handleFormatChange(type) from a hotkey or the format buttons
FormatChange(type) ==
    LET next == handleFormatChange(EditorState, blocks, activeBlock, type, nextId) IN
    /\ Commit(next)
    /\ Record([NoOp EXCEPT !.name = "format", !.id = activeBlock, !.type = type,
                           !.found = findIndex(blocks, activeBlock) # 0])
    /\ UNCHANGED <<activeBlock, lastKeyPressTime, now, scenes, pendingSync>>
    /\ UseId(usesId(next, nextId))
    /\ Rerender

\* handleContentChange from handleBlur (no forcedType) or handleSuggestionSelect
\* handleContentChange(id, newContent, forcedType)
ContentChangeWith(blockId, newContent, forcedType) ==
    LET idx == findIndex(blocks, blockId)
        res == handleContentChange(EditorState, blocks, blockId, newContent, forcedType, nextId)
    IN  /\ Commit(res.state)
        /\ pendingSync' = pendingSync \o res.pending
        /\ Len(pendingSync') <= 1
        /\ Record([NoOp EXCEPT !.name = "content", !.id = blockId, !.text = newContent,
                                  !.type = forcedType, !.found = idx # 0,
                                  !.focus = contentBlockToFocus(blocks, blockId, newContent,
                                                                forcedType, nextId)])
        /\ UNCHANGED <<activeBlock, lastKeyPressTime, now, scenes>>
        /\ UseId(usesId(res.state, nextId))
        /\ Rerender

\* the block's blur (no forcedType) and the pick of a suggestion (block.type)
ContentChange(blockId, newContent, forced) ==
    LET idx == findIndex(blocks, blockId)
        forcedType == IF forced /\ idx # 0 THEN blocks[idx].type ELSE NoFormat
    IN  /\ forced => (idx # 0 /\ blockId = activeBlock /\ showSuggestions)
        /\ ContentChangeWith(blockId, newContent, forcedType)

\* a suspended handleContentChange resumes and calls updateBlocks(updatedBlocks)
ContentChangeResume ==
    /\ pendingSync # NoPending
    /\ Commit(updateBlocks(EditorState, Head(pendingSync)))
    /\ pendingSync' = Tail(pendingSync)
    /\ Record([NoOp EXCEPT !.name = "content-resume"])
    /\ UNCHANGED <<activeBlock, lastKeyPressTime, now, nextId, scenes>>
    /\ Rerender

\* SceneNavigator hands back its scene list in a new order
ScenesReordered(order) ==
    /\ Len(scenes) >= 2
    /\ Commit(handleScenesReordered(EditorState, blocks, order))
    /\ scenes' = order
    /\ Record([NoOp EXCEPT !.name = "reorder"])
    /\ UNCHANGED <<activeBlock, lastKeyPressTime, now, nextId, pendingSync>>
    /\ Rerender

\* the scene-heading suggestion surface calls onEnterAction
EnterActionCreation ==
    LET next == createActionBlockAfterSceneHeading(EditorState, blocks, activeBlock, nextId)
        idx == findIndex(blocks, activeBlock)
    IN  /\ showSuggestions
        /\ idx # 0 /\ blocks[idx].type = "scene-heading"
        /\ Commit(next)
        /\ activeBlock' = nextId
        /\ Record([NoOp EXCEPT !.name = "enter-action", !.id = activeBlock, !.focus = nextId])
        /\ UNCHANGED <<lastKeyPressTime, now, scenes, pendingSync>>
        /\ UseId(TRUE)
        /\ Rerender

Undo ==
    /\ Commit(handleUndo(EditorState))
    /\ Record([NoOp EXCEPT !.name = "undo"])
    /\ UNCHANGED <<activeBlock, lastKeyPressTime, now, nextId, scenes, pendingSync>>
    /\ Rerender

Redo ==
    /\ Commit(handleRedo(EditorState))
    /\ Record([NoOp EXCEPT !.name = "redo"])
    /\ UNCHANGED <<activeBlock, lastKeyPressTime, now, nextId, scenes, pendingSync>>
    /\ Rerender

\* onBlockFocus(id) and handleFocus of the block's component
Focus(blockId) ==
    /\ findIndex(blocks, blockId) # 0
    /\ blockId # activeBlock
    /\ activeBlock' = blockId
    /\ Record([NoOp EXCEPT !.name = "focus", !.id = blockId])
    /\ UNCHANGED <<blocks, undoStack, redoStack, lastKeyPressTime, now, nextId, scenes,
                   pendingSync>>
    /\ Rerender

\* closeSuggestions, called by the suggestion surface through onClose
CloseSuggestions ==
    /\ showSuggestions
    /\ showSuggestions' = FALSE
    /\ Record([NoOp EXCEPT !.name = "close-suggestions"])
    /\ UNCHANGED <<blocks, undoStack, redoStack, activeBlock, lastKeyPressTime, now, nextId,
                   scenes, pendingSync>>

\* time passes
Tick ==
    /\ now < StartTime + MaxTicks * TickMs
    /\ now' = now + TickMs
    /\ Record([NoOp EXCEPT !.name = "tick"])
    /\ UNCHANGED <<blocks, undoStack, redoStack, activeBlock, showSuggestions,
                   lastKeyPressTime, nextId, scenes, pendingSync>>

MoreSteps == steps < MaxSteps

Next ==
    \/ MoreSteps /\ \E blockId \in IdsEver, text \in EnterTexts :
         \E caretPos \in 0..Len(text) : KeyDownEnter(blockId, text, caretPos)
    \/ MoreSteps /\ \E blockId \in IdsEver : KeyDownEnterSuggesting(blockId)
    \/ MoreSteps /\ \E blockId \in IdsEver : KeyDownBackspace(blockId)
    \/ MoreSteps /\ KeyDownTab
    \/ MoreSteps /\ \E i \in 1..Len(BLOCK_TYPES) : FormatChange(BLOCK_TYPES[i])
    \/ MoreSteps /\ \E blockId \in IdsEver, newContent \in ContentTexts, forced \in BOOLEAN :
         ContentChange(blockId, newContent, forced)
    \/ MoreSteps /\ ContentChangeResume
    \/ MoreSteps /\ \E order \in Orderings(scenes) : ScenesReordered(order)
    \/ MoreSteps /\ EnterActionCreation
    \/ MoreSteps /\ Undo
    \/ MoreSteps /\ Redo
    \/ MoreSteps /\ \E blockId \in IdsEver : Focus(blockId)
    \/ MoreSteps /\ CloseSuggestions
    \/ MoreSteps /\ Tick

Spec == Init /\ [][Next]_vars


(***************************************************************************)
(* Properties of the editor (specification Spec).                           *)
(***************************************************************************)
EditorStateNext == [blocks |-> blocks', undoStack |-> undoStack', redoStack |-> redoStack']

\* C1: after any sequence of Enter, Backspace, Tab, format change, content
\* change, scene reorder, undo and redo from a non-empty store, the Block
\* Store holds at least one block.
C1_StoreNeverEmpty == Len(blocks) >= 1

\* C2: every operation that changes the Block Store (other than undo and redo
\* themselves) has pushed the pre-edit store on the undo stack, so that one
\* undo issued immediately afterwards restores exactly the store as it was.
C2_EveryEditPushesHistory ==
    [][ (blocks' # blocks /\ lastOp'.name \notin {"undo", "redo"})
          => /\ undoStack' # <<>>
             /\ undoStack'[Len(undoStack')] = blocks
             /\ handleUndo(EditorStateNext).blocks = blocks ]_vars

\* C6: Backspace on the first block of the store, or on the only block of a
\* single-block store, leaves the block list, the undo stack and the redo
\* stack as they were.
C6_BackspaceFirstOrOnlyIsNoOp ==
    [][ (lastOp'.name = "backspace"
           /\ (Len(blocks) = 1 \/ findIndex(blocks, lastOp'.id) = 1))
          => UNCHANGED <<blocks, undoStack, redoStack>> ]_vars

\* Backspace has just been pressed on the only block of a store that has a history
C6_Witness ==
    /\ lastOp.name = "backspace"
    /\ Len(blocks) = 1
    /\ findIndex(blocks, lastOp.id) = 1
    /\ undoStack # <<>>


(***************************************************************************)
(* Enter: what a step of handleEnterKey is compared against.                *)
(***************************************************************************)
sameBlock(a, b) == a.id = b.id /\ a.type = b.type /\ a.content = b.content

\* the blocks other than the one at idx are the same, the later ones moved by shift
othersKept(idx, shift) ==
    /\ \A i \in 1..(idx - 1) : sameBlock(blocks'[i], blocks[i])
    /\ \A i \in (idx + 1)..Len(blocks) : sameBlock(blocks'[i + shift], blocks[i])

\* a step in which handleEnterKey ran on a block of the given type
EnterRanOn(type) ==
    /\ lastOp'.name = "enter"
    /\ findIndex(blocks, lastOp'.id) # 0
    /\ blocks[findIndex(blocks, lastOp'.id)].type = type

\* an Enter was handled less than 500 ms before this one
recentEnter == lastEnter.id # NullId /\ now - lastEnter.at < 500

\* C7: Enter on a character block whose text is not whitespace-only on both
\* sides of the caret keeps the block as a character block holding the
\* trimmed, uppercased text before the caret, inserts exactly one new block
\* right after it holding the trimmed text after the caret, and returns the
\* new block as the focus target; with no Enter handled in the preceding
\* 500 ms the new block is a dialogue block.
C7_EnterOnCharacterTrimmed ==
    [][ LET idx == findIndex(blocks, lastOp'.id)
            before == substringTo(lastOp'.text, lastOp'.caret)
            after == substringFrom(lastOp'.text, lastOp'.caret)
        IN  (EnterRanOn("character") /\ ~(trim(before) = EmptyText /\ trim(after) = EmptyText))
              => /\ Len(blocks') = Len(blocks) + 1
                 /\ othersKept(idx, 1)
                 /\ blocks'[idx].id = blocks[idx].id
                 /\ blocks'[idx].type = "character"
                 /\ blocks'[idx].content = toUpperCase(trim(before))
                 /\ blocks'[idx + 1].content = trim(after)
                 /\ blocks'[idx + 1].id = lastOp'.focus
                 /\ findIndex(blocks, lastOp'.focus) = 0
                 /\ (~recentEnter => blocks'[idx + 1].type = "dialogue") ]_vars

\* C7 as the claim words it: the texts before and after the caret are taken as they are
C7_EnterOnCharacterVerbatim ==
    [][ LET idx == findIndex(blocks, lastOp'.id)
            before == substringTo(lastOp'.text, lastOp'.caret)
            after == substringFrom(lastOp'.text, lastOp'.caret)
        IN  (EnterRanOn("character") /\ ~(before = EmptyText /\ after = EmptyText))
              => /\ Len(blocks') = Len(blocks) + 1
                 /\ othersKept(idx, 1)
                 /\ blocks'[idx].id = blocks[idx].id
                 /\ blocks'[idx].type = "character"
                 /\ blocks'[idx].content = toUpperCase(before)
                 /\ blocks'[idx + 1].content = after
                 /\ blocks'[idx + 1].id = lastOp'.focus
                 /\ findIndex(blocks, lastOp'.focus) = 0
                 /\ (~recentEnter => blocks'[idx + 1].type = "dialogue") ]_vars

\* Enter has split a character block around " a|b": the cue reads "A", the new
\* dialogue block reads "b" and is the focus target
C7_Witness ==
    LET idx == findIndex(blocks, lastOp.id) IN
    /\ lastOp.name = "enter" /\ lastOp.found /\ lastOp.type = "character"
    /\ lastOp.text = <<" ", "a", "b">> /\ lastOp.caret = 2
    /\ lastOp.gap = -1
    /\ idx # 0 /\ idx < Len(blocks)
    /\ blocks[idx].type = "character" /\ blocks[idx].content = <<"A">>
    /\ blocks[idx + 1].id = lastOp.focus
    /\ blocks[idx + 1].type = "dialogue" /\ blocks[idx + 1].content = <<"b">>

\* C8: an Enter is a double-Enter exactly when it comes less than 500 ms after
\* the previous Enter handled in the session, whichever block that one was on:
\* on a character block with text, the new block is an action block in that
\* case and a dialogue block otherwise.
C8_DoubleEnterIsSessionWide ==
    [][ LET idx == findIndex(blocks, lastOp'.id)
            before == substringTo(lastOp'.text, lastOp'.caret)
            after == substringFrom(lastOp'.text, lastOp'.caret)
        IN  (EnterRanOn("character") /\ ~(trim(before) = EmptyText /\ trim(after) = EmptyText))
              => /\ Len(blocks') = Len(blocks) + 1
                 /\ blocks'[idx + 1].type = IF recentEnter THEN "action" ELSE "dialogue" ]_vars

\* an Enter on a character block came less than 500 ms after an Enter on another
\* block and made an action block
C8_Witness ==
    LET idx == findIndex(blocks, lastOp.id) IN
    /\ lastOp.name = "enter" /\ lastOp.found /\ lastOp.type = "character"
    /\ lastOp.prev # NullId /\ lastOp.prev # lastOp.id
    /\ lastOp.gap >= 0 /\ lastOp.gap < 500
    /\ idx # 0 /\ idx < Len(blocks)
    /\ blocks[idx + 1].id = lastOp.focus
    /\ blocks[idx + 1].type = "action"


\* C9: Enter on a dialogue block with nothing but whitespace before the caret,
\* less than 500 ms after the previous handled Enter, yields an action block
\* carrying the trimmed text after the caret: when that text is empty too the
\* dialogue block is replaced in place and the block count is unchanged,
\* otherwise the block is split and the block count grows by one.
C9_DoubleEnterOnDialogueTrimmed ==
    [][ LET idx == findIndex(blocks, lastOp'.id)
            before == substringTo(lastOp'.text, lastOp'.caret)
            after == substringFrom(lastOp'.text, lastOp'.caret)
        IN  (EnterRanOn("dialogue") /\ trim(before) = EmptyText /\ recentEnter)
              => IF trim(after) = EmptyText
                 THEN /\ Len(blocks') = Len(blocks)
                      /\ othersKept(idx, 0)
                      /\ blocks'[idx].type = "action"
                      /\ blocks'[idx].content = EmptyText
                      /\ blocks'[idx].id = lastOp'.focus
                 ELSE /\ Len(blocks') = Len(blocks) + 1
                      /\ othersKept(idx, 1)
                      /\ blocks'[idx].id = blocks[idx].id
                      /\ blocks'[idx].type = "dialogue"
                      /\ blocks'[idx + 1].type = "action"
                      /\ blocks'[idx + 1].content = trim(after)
                      /\ blocks'[idx + 1].id = lastOp'.focus ]_vars

\* C9 as the claim words it: empty means no character at all, and the action
\* block carries the text after the caret as it is
C9_DoubleEnterOnDialogueVerbatim ==
    [][ LET idx == findIndex(blocks, lastOp'.id)
            before == substringTo(lastOp'.text, lastOp'.caret)
            after == substringFrom(lastOp'.text, lastOp'.caret)
        IN  (EnterRanOn("dialogue") /\ before = EmptyText /\ recentEnter)
              => IF after = EmptyText
                 THEN /\ Len(blocks') = Len(blocks)
                      /\ othersKept(idx, 0)
                      /\ blocks'[idx].type = "action"
                      /\ blocks'[idx].content = EmptyText
                      /\ blocks'[idx].id = lastOp'.focus
                 ELSE /\ Len(blocks') = Len(blocks) + 1
                      /\ othersKept(idx, 1)
                      /\ blocks'[idx].id = blocks[idx].id
                      /\ blocks'[idx].type = "dialogue"
                      /\ blocks'[idx + 1].type = "action"
                      /\ blocks'[idx + 1].content = after
                      /\ blocks'[idx + 1].id = lastOp'.focus ]_vars

\* a second Enter within 500 ms on an empty dialogue block under a character cue
\* has replaced it by an empty action block
C9_Witness ==
    LET idx == findIndex(blocks, lastOp.focus) IN
    /\ lastOp.name = "enter" /\ lastOp.found /\ lastOp.type = "dialogue"
    /\ lastOp.text = EmptyText
    /\ lastOp.gap >= 0 /\ lastOp.gap < 500
    /\ findIndex(blocks, lastOp.id) = 0
    /\ idx > 1
    /\ blocks[idx].type = "action" /\ blocks[idx].content = EmptyText
    /\ blocks[idx - 1].type = "character"

\* the store a new screenplay starts from
isDefaultStore(bs) ==
    /\ Len(bs) = 2
    /\ bs[1].type = "scene-heading" /\ bs[1].content = EmptyText
    /\ bs[2].type = "action" /\ bs[2].content = DefaultActionText

MaxComments == 3
MaxOffset == 3
Undefined == -1

Min(a, b) == IF a < b THEN a ELSE b
Max(a, b) == IF a > b THEN a ELSE b

\* index of the first existing range the comment overlaps, 0 if there is none
firstOverlapping(ranges, comment) ==
    LET hits == {i \in 1..Len(ranges) :
                    comment.startOffset < ranges[i].end /\ comment.endOffset > ranges[i].start}
    IN  IF hits = {} THEN 0 ELSE CHOOSE i \in hits : \A j \in hits : i <= j

\* the merge that leaves existing.end as it was
mergeCommentKeepsEnd(ranges, comment) ==
    IF comment.startOffset = Undefined \/ comment.endOffset = Undefined THEN ranges
    ELSE LET i == firstOverlapping(ranges, comment) IN
         IF i # 0
         THEN [ranges EXCEPT ![i] =
                  [start |-> Min(ranges[i].start, comment.startOffset),
                   end |-> ranges[i].end,
                   commentIds |-> Append(ranges[i].commentIds, comment.id)]]
         ELSE Append(ranges, [start |-> comment.startOffset, end |-> comment.endOffset,
                              commentIds |-> <<comment.id>>])

\* the body of blockComments.forEach: one comment against the ranges so far
mergeComment(ranges, comment) ==
    IF comment.startOffset = Undefined \/ comment.endOffset = Undefined THEN ranges
    ELSE LET i == firstOverlapping(ranges, comment) IN
         IF i # 0
         THEN [ranges EXCEPT ![i] =
                  [start |-> Min(ranges[i].start, comment.startOffset),
                   end |-> Max(ranges[i].end, comment.endOffset),
                   commentIds |-> Append(ranges[i].commentIds, comment.id)]]
         ELSE Append(ranges, [start |-> comment.startOffset, end |-> comment.endOffset,
                              commentIds |-> <<comment.id>>])

RECURSIVE mergeAll(_, _)
mergeAll(ranges, comments) ==
    IF comments = <<>> THEN ranges
    ELSE mergeAll(mergeComment(ranges, Head(comments)), Tail(comments))

\* insertion of r into a list sorted by descending start, after its equals
RECURSIVE insertByStartDesc(_, _)
insertByStartDesc(sorted, r) ==
    IF sorted = <<>> THEN <<r>>
    ELSE IF Head(sorted).start >= r.start
         THEN <<Head(sorted)>> \o insertByStartDesc(Tail(sorted), r)
         ELSE <<r>> \o sorted

\* highlightRanges.sort((a, b) => b.start - a.start)
RECURSIVE sortByStartDesc(_)
sortByStartDesc(ranges) ==
    IF ranges = <<>> THEN <<>>
    ELSE insertByStartDesc(sortByStartDesc(SubSeq(ranges, 1, Len(ranges) - 1)),
                           ranges[Len(ranges)])

\* the ranges applyAllCommentHighlights hands to the DOM pass
applyAllCommentHighlights(comments) == sortByStartDesc(mergeAll(<<>>, comments))

\* a comment is made on a selection that is not empty
CommentOffsets ==
    {<<a, b>> \in (0..MaxOffset) \X (0..MaxOffset) : a < b} \cup {<<Undefined, Undefined>>}

\* comment lists of one block: the i-th comment has id i
CommentLists ==
    UNION {[1..n -> CommentOffsets] : n \in 1..MaxComments}

commentsOf(offsets) ==
    [i \in 1..Len(offsets) |->
        [id |-> i, startOffset |-> offsets[i][1], endOffset |-> offsets[i][2]]]

EditorIdle ==
    /\ InitDocument(DefaultSceneDocuments)

InitMerge ==
    /\ EditorIdle
    /\ LayoutIdle
    /\ CommentsIdle
    /\ AutosaveIdle
    /\ UiIdle
    /\ \E offsets \in CommentLists : blockComments = commentsOf(offsets)
    /\ highlightRanges = <<>>

\* the highlight effect runs applyAllCommentHighlights(blockComments)
ApplyAllCommentHighlights ==
    /\ lastOp.name = "init"
    /\ highlightRanges' = applyAllCommentHighlights(blockComments)
    /\ lastOp' = [NoOp EXCEPT !.name = "highlight"]
    /\ UNCHANGED <<blocks, undoStack, redoStack, activeBlock, showSuggestions,
                   lastKeyPressTime, now, nextId, scenes, pendingSync, steps, lastEnter>>
    /\ UNCHANGED <<blockComments, layoutVars, commentVars, autosaveVars, loadVars, uiVars>>

\* a further comment on the block arrives and the effect runs again
CommentAdded ==
    /\ lastOp.name = "highlight"
    /\ Len(blockComments) < MaxComments
    /\ \E o \in CommentOffsets :
         blockComments' = Append(blockComments,
                                 [id |-> Len(blockComments) + 1,
                                  startOffset |-> o[1], endOffset |-> o[2]])
    /\ highlightRanges' = applyAllCommentHighlights(blockComments')
    /\ UNCHANGED <<editorVars, layoutVars, commentVars, autosaveVars, loadVars, uiVars>>

NextMerge ==
    \/ ApplyAllCommentHighlights
    \/ CommentAdded

SpecMerge == InitMerge /\ [][NextMerge]_vars

highlightDone == lastOp.name = "highlight"

definedComments == {i \in 1..Len(blockComments) :
                       blockComments[i].startOffset # Undefined
                       /\ blockComments[i].endOffset # Undefined}

idsOf(r) == {r.commentIds[k] : k \in 1..Len(r.commentIds)}

\* C3: for every list of comments on one block, the ranges the highlight merge
\* produces are pairwise non-overlapping: there are no two output ranges r, s
\* with r.start < s.end and r.end > s.start.
C3_MergedRangesDisjoint ==
    highlightDone =>
        \A i, j \in 1..Len(highlightRanges) :
            i # j => ~(highlightRanges[i].start < highlightRanges[j].end
                       /\ highlightRanges[i].end > highlightRanges[j].start)

\* C4: every comment with defined offsets is listed in exactly one output
\* range, each output range's start and end are the minimum start offset and
\* the maximum end offset of the comments it lists, and it lists them in input
\* order.
C4_RangesCoverTheirComments ==
    highlightDone =>
        /\ \A c \in definedComments :
             \E i \in 1..Len(highlightRanges) :
                /\ c \in idsOf(highlightRanges[i])
                /\ \A j \in 1..Len(highlightRanges) :
                     c \in idsOf(highlightRanges[j]) => j = i
        /\ \A i \in 1..Len(highlightRanges) :
             LET r == highlightRanges[i] IN
             /\ Len(r.commentIds) >= 1
             /\ idsOf(r) \subseteq definedComments
             /\ \A k, l \in 1..Len(r.commentIds) : k < l => r.commentIds[k] < r.commentIds[l]
             /\ \A c \in idsOf(r) : /\ r.start <= blockComments[c].startOffset
                                    /\ r.end >= blockComments[c].endOffset
             /\ \E c \in idsOf(r) : r.start = blockComments[c].startOffset
             /\ \E c \in idsOf(r) : r.end = blockComments[c].endOffset

\* c1 on 0..2 and c2 on 1..3 have been merged into the single range 0..3 [c1, c2]
C4_Witness ==
    /\ highlightDone
    /\ blockComments = << [id |-> 1, startOffset |-> 0, endOffset |-> 2],
                          [id |-> 2, startOffset |-> 1, endOffset |-> 3] >>
    /\ highlightRanges = << [start |-> 0, end |-> 3, commentIds |-> <<1, 2>>] >>


(***************************************************************************)
(* The card layout pass of the comments panel.  A comment of the layout     *)
(* input is [id, known, pos, measured, highlightedText, text, emoji,        *)
(* replies]: known and pos stand for blockPositions[comment.blockId],       *)
(* measured for measureCardHeight(comment.id), the others for the lengths   *)
(* of the comment's fields.  A laid out card is [id, placed, position,      *)
(* height]: placed is FALSE where the code returns position: null, height   *)
(* is the card height the pass used.                                        *)
(***************************************************************************)
MaxCards == 3

cardVerticalOffset == 0 - 20
baseCardHeight == 140
expandedCardHeight == 220
cardMargin == 16

\* blockPositions[a.blockId] || 0
sortKey(c) == IF c.known THEN c.pos ELSE 0

RECURSIVE insertByPosition(_, _)
insertByPosition(sorted, c) ==
    IF sorted = <<>> THEN <<c>>
    ELSE IF sortKey(Head(sorted)) <= sortKey(c)
         THEN <<Head(sorted)>> \o insertByPosition(Tail(sorted), c)
         ELSE <<c>> \o sorted

\* [...filteredComments].sort((a, b) => posA - posB)
RECURSIVE sortedComments(_)
sortedComments(comments) ==
    IF comments = <<>> THEN <<>>
    ELSE insertByPosition(sortedComments(SubSeq(comments, 1, Len(comments) - 1)),
                          comments[Len(comments)])

unplaced(c) == [id |-> c.id, placed |-> FALSE, position |-> 0, height |-> 0]

\* the pass with lastCardBottom = position, the card's height left out
RECURSIVE positionedFromTop(_, _, _)
positionedFromTop(sorted, lastCardBottom, activeCommentId) ==
    IF sorted = <<>> THEN <<>>
    ELSE LET comment == Head(sorted)
             aligned == comment.pos + cardVerticalOffset
             position == IF aligned < lastCardBottom THEN lastCardBottom + cardMargin
                         ELSE aligned
             cardHeight == IF comment.id = activeCommentId THEN expandedCardHeight
                           ELSE baseCardHeight
         IN  IF ~comment.known
             THEN <<unplaced(comment)>>
                  \o positionedFromTop(Tail(sorted), lastCardBottom, activeCommentId)
             ELSE <<[id |-> comment.id, placed |-> TRUE, position |-> position,
                     height |-> cardHeight]>>
                  \o positionedFromTop(Tail(sorted), position, activeCommentId)

\* CommentsPanel.positionedComments: the map over sortedComments
RECURSIVE positionedFrom(_, _, _)
positionedFrom(sorted, lastCardBottom, activeCommentId) ==
    IF sorted = <<>> THEN <<>>
    ELSE LET comment == Head(sorted)
             aligned == comment.pos + cardVerticalOffset
             position == IF aligned < lastCardBottom THEN lastCardBottom + cardMargin
                         ELSE aligned
             cardHeight == IF comment.id = activeCommentId THEN expandedCardHeight
                           ELSE baseCardHeight
         IN  IF ~comment.known
             THEN <<unplaced(comment)>>
                  \o positionedFrom(Tail(sorted), lastCardBottom, activeCommentId)
             ELSE <<[id |-> comment.id, placed |-> TRUE, position |-> position,
                     height |-> cardHeight]>>
                  \o positionedFrom(Tail(sorted), position + cardHeight, activeCommentId)

positionedComments(in) == positionedFrom(sortedComments(in.comments), 0, in.activeCommentId)

\* Math.ceil(a / b) for a >= 0, b > 0
ceilDiv(a, b) == (a + b - 1) \div b

\* getEstimatedHeight(comment), for a comment whose replies have no replies
getEstimatedHeight(comment, useCompactMode, expandedCards) ==
    LET baseHeight == IF useCompactMode THEN 120 ELSE 160
        highlightHeight == IF comment.highlightedText > 0
                           THEN (IF useCompactMode THEN 30 ELSE 40) ELSE 0
        textLines == ceilDiv(comment.text, IF useCompactMode THEN 60 ELSE 80)
        textHeight == Max(0, textLines - 2) * (IF useCompactMode THEN 16 ELSE 20)
        emojiHeight == IF comment.emoji > 0 THEN (IF useCompactMode THEN 30 ELSE 40) ELSE 0
        inputHeight == IF comment.id \in expandedCards
                       THEN (IF useCompactMode THEN 80 ELSE 120) ELSE 0
        repliesHeight == comment.replies * (IF useCompactMode THEN 80 ELSE 100)
    IN  baseHeight + highlightHeight + textHeight + emojiHeight + inputHeight + repliesHeight

\* the improved panel's calculateCommentPositions: the map over sortedComments
RECURSIVE calculateFrom(_, _, _, _)
calculateFrom(sorted, accumulatedHeight, useCompactMode, expandedCards) ==
    IF sorted = <<>> THEN <<>>
    ELSE LET comment == Head(sorted)
             margin == IF useCompactMode THEN 12 ELSE 16
             aligned == comment.pos - 20
             position == IF aligned < accumulatedHeight THEN accumulatedHeight + margin
                         ELSE aligned
             actualHeight == IF comment.measured # 0 THEN comment.measured
                             ELSE getEstimatedHeight(comment, useCompactMode, expandedCards)
         IN  IF ~comment.known
             THEN <<unplaced(comment)>>
                  \o calculateFrom(Tail(sorted), accumulatedHeight, useCompactMode, expandedCards)
             ELSE <<[id |-> comment.id, placed |-> TRUE, position |-> position,
                     height |-> actualHeight]>>
                  \o calculateFrom(Tail(sorted), position + actualHeight + margin,
                                   useCompactMode, expandedCards)

calculateCommentPositions(in) ==
    calculateFrom(sortedComments(in.comments), 0, in.useCompactMode, in.expandedCards)

\* the card height the panel of part_001:546-601 computes from the comment
contentCardHeight(comment, useCompactMode, expandedCards) ==
    (IF useCompactMode THEN 120 ELSE 160)
    + (IF comment.highlightedText > 0 THEN (IF useCompactMode THEN 30 ELSE 40) ELSE 0)
    + (IF comment.id \in expandedCards THEN (IF useCompactMode THEN 80 ELSE 120) ELSE 0)
    + comment.replies * (IF useCompactMode THEN 80 ELSE 100)
    + (IF comment.emoji > 0 THEN (IF useCompactMode THEN 30 ELSE 40) ELSE 0)

\* that panel's calculateCommentPositions: the map over sortedComments
RECURSIVE calculateByContentFrom(_, _, _, _)
calculateByContentFrom(sorted, accumulatedHeight, useCompactMode, expandedCards) ==
    IF sorted = <<>> THEN <<>>
    ELSE LET comment == Head(sorted)
             margin == IF useCompactMode THEN 12 ELSE 16
             aligned == comment.pos + cardVerticalOffset
             position == IF aligned < accumulatedHeight THEN accumulatedHeight + margin
                         ELSE aligned
             cardHeight == contentCardHeight(comment, useCompactMode, expandedCards)
         IN  IF ~comment.known
             THEN <<unplaced(comment)>>
                  \o calculateByContentFrom(Tail(sorted), accumulatedHeight, useCompactMode,
                                            expandedCards)
             ELSE <<[id |-> comment.id, placed |-> TRUE, position |-> position,
                     height |-> cardHeight]>>
                  \o calculateByContentFrom(Tail(sorted), position + cardHeight,
                                            useCompactMode, expandedCards)

calculateCommentPositionsByContent(in) ==
    calculateByContentFrom(sortedComments(in.comments), 0, in.useCompactMode, in.expandedCards)

(***************************************************************************)
(* Inputs of the layout pass.                                               *)
(***************************************************************************)
\* vertical offsets of the blocks the comments are anchored to
AnchorOffsets == {0, 50, 55, 200}

PlainCard == [highlightedText |-> 0, text |-> 10, emoji |-> 0, replies |-> 0, measured |-> 0]
RichCard == [highlightedText |-> 5, text |-> 200, emoji |-> 1, replies |-> 1, measured |-> 0]
MeasuredCard == [highlightedText |-> 0, text |-> 10, emoji |-> 0, replies |-> 0, measured |-> 100]

CardAnchors == {[known |-> TRUE, pos |-> p] : p \in AnchorOffsets}
                  \cup {[known |-> FALSE, pos |-> 0]}

CardChoices == CardAnchors \X {PlainCard, RichCard, MeasuredCard}

cardOf(i, choice) ==
    [id |-> i, known |-> choice[1].known, pos |-> choice[1].pos,
     measured |-> choice[2].measured, highlightedText |-> choice[2].highlightedText,
     text |-> choice[2].text, emoji |-> choice[2].emoji, replies |-> choice[2].replies]

CardLists == UNION {[1..n -> CardChoices] : n \in 1..MaxCards}

InitLayout ==
    /\ EditorIdle
    /\ MergeIdle
    /\ CommentsIdle
    /\ AutosaveIdle
    /\ UiIdle
    /\ \E choices \in CardLists, active \in 0..1, compact \in BOOLEAN, expanded \in SUBSET {1} :
         layoutIn = [comments |-> [i \in 1..Len(choices) |-> cardOf(i, choices[i])],
                     activeCommentId |-> active,
                     useCompactMode |-> compact,
                     expandedCards |-> expanded]
    /\ positioned = <<>>

\* CommentsPanel renders: positionedComments is computed
PositionedComments ==
    /\ lastOp.name = "init"
    /\ positioned' = positionedComments(layoutIn)
    /\ lastOp' = [NoOp EXCEPT !.name = "positioned"]
    /\ UNCHANGED <<blocks, undoStack, redoStack, activeBlock, showSuggestions,
                   lastKeyPressTime, now, nextId, scenes, pendingSync, steps, lastEnter>>
    /\ UNCHANGED <<layoutIn, mergeVars, commentVars, autosaveVars, loadVars, uiVars>>

\* the improved panel's effect runs calculateCommentPositions()
CalculateCommentPositions ==
    /\ lastOp.name = "init"
    /\ positioned' = calculateCommentPositions(layoutIn)
    /\ lastOp' = [NoOp EXCEPT !.name = "calculated"]
    /\ UNCHANGED <<blocks, undoStack, redoStack, activeBlock, showSuggestions,
                   lastKeyPressTime, now, nextId, scenes, pendingSync, steps, lastEnter>>
    /\ UNCHANGED <<layoutIn, mergeVars, commentVars, autosaveVars, loadVars, uiVars>>

\* the panel of part_001:546-601 renders: calculateCommentPositions()
CalculateCommentPositionsByContent ==
    /\ lastOp.name = "init"
    /\ positioned' = calculateCommentPositionsByContent(layoutIn)
    /\ lastOp' = [NoOp EXCEPT !.name = "calculated-by-content"]
    /\ UNCHANGED <<blocks, undoStack, redoStack, activeBlock, showSuggestions,
                   lastKeyPressTime, now, nextId, scenes, pendingSync, steps, lastEnter>>
    /\ UNCHANGED <<layoutIn, mergeVars, commentVars, autosaveVars, loadVars, uiVars>>

NextLayout ==
    \/ PositionedComments
    \/ CalculateCommentPositions
    \/ CalculateCommentPositionsByContent

SpecLayout == InitLayout /\ [][NextLayout]_vars

layoutDone == lastOp.name \in {"positioned", "calculated", "calculated-by-content"}

anchorOf(id) == layoutIn.comments[id].pos

\* C5: no two positioned cards overlap: of any two positioned cards, the one
\* placed later in anchor order has its top at or below the other's top plus
\* the other's height.
C5_CardsDoNotOverlap ==
    layoutDone =>
        \A i, j \in 1..Len(positioned) :
            (i < j /\ positioned[i].placed /\ positioned[j].placed)
              => positioned[j].position >= positioned[i].position + positioned[i].height

\* three anchored cards have been laid out, the later two pushed below their anchors
C5_Witness ==
    /\ lastOp.name = "positioned"
    /\ Len(positioned) = 3
    /\ \A i \in 1..3 : positioned[i].placed
    /\ \A i \in 2..3 : positioned[i].position > anchorOf(positioned[i].id) + cardVerticalOffset
    /\ anchorOf(positioned[1].id) < anchorOf(positioned[2].id)
    /\ anchorOf(positioned[2].id) < anchorOf(positioned[3].id)


(***************************************************************************)
(* Properties of undo, redo and of calls with an id that is not found.      *)
(***************************************************************************)
\* C11: undo with a non-empty undo stack makes the most recent snapshot the
\* live store and pushes the prior live store on the redo stack, and a redo
\* issued immediately afterwards returns the store, the undo stack and the
\* redo stack to their values before the undo; undo on an empty undo stack
\* and redo on an empty redo stack change nothing.
C11_UndoThenRedoRestores ==
    [][ /\ (lastOp'.name = "undo" /\ undoStack # <<>>)
            => /\ blocks' = undoStack[Len(undoStack)]
               /\ undoStack' = SubSeq(undoStack, 1, Len(undoStack) - 1)
               /\ redoStack' = Append(redoStack, blocks)
               /\ handleRedo(EditorStateNext) = EditorState
        /\ (lastOp'.name = "undo" /\ undoStack = <<>>)
            => UNCHANGED <<blocks, undoStack, redoStack>>
        /\ (lastOp'.name = "redo" /\ redoStack = <<>>)
            => UNCHANGED <<blocks, undoStack, redoStack>> ]_vars

\* an undo has just replaced the live store by a different snapshot
C11_Witness ==
    /\ lastOp.name = "undo"
    /\ redoStack # <<>>
    /\ redoStack[Len(redoStack)] # blocks

\* C12: after every edit of the Block Store that is not itself an undo or a
\* redo, the redo stack is empty, so that a redo issued right after the edit
\* leaves the store unchanged.
C12_EditsClearRedo ==
    [][ (blocks' # blocks /\ lastOp'.name \notin {"undo", "redo"})
          => /\ redoStack' = <<>>
             /\ handleRedo(EditorStateNext).blocks = blocks' ]_vars

\* C13: Enter, Backspace, Tab, a format change and a content change called for
\* a block id that is not in the store leave the Block Store unchanged.
C13_UnknownIdLeavesStore ==
    [][ (lastOp'.name \in {"enter", "backspace", "tab", "format", "content"}
           /\ lastOp'.id # NullId
           /\ findIndex(blocks, lastOp'.id) = 0)
          => /\ blocks' = blocks
             /\ pendingSync' = pendingSync ]_vars

\* Backspace has run for an id that was not in a store of several blocks
C13_Witness ==
    /\ lastOp.name = "backspace"
    /\ lastOp.id # NullId
    /\ ~lastOp.found
    /\ Len(blocks) >= 2


(***************************************************************************)
(* Properties of the content change that waits for the heading registry.    *)
(***************************************************************************)
blockIds(bs) == { bs[i].id : i \in 1..Len(bs) }

\* C18: every Block Store mutation is applied when the operation is invoked,
\* before the registry call is awaited; so when a content change of a
\* scene-heading block completes, the blocks another operation has put in the
\* store while that call was pending are still in the store.
C18_PendingContentChangeKeepsOtherEdits ==
    [][ lastOp'.name = "content-resume" => blockIds(blocks) \subseteq blockIds(blocks') ]_vars


(***************************************************************************)
(* The Comment Anchor Store of useEditorState: state.comments and the       *)
(* calls that persist it.  A call runs up to its await when it is invoked   *)
(* and is then held in inflight until the persisted store answers; its      *)
(* continuation runs as the completion action.  A callback reads            *)
(* state.comments as its render captured it (rendered); an updater passed   *)
(* to setState reads the live value (stateComments).  createdAt is          *)
(* "client" for Timestamp.now() and "server" for serverTimestamp().         *)
(***************************************************************************)
MaxCommentSteps == 6
MaxInflight == 2
MaxCommentIds == 3
DocIdOffset == 100

Users == {"user1", "user2"}
Emojis == {"thumbs-up"}

Reaction(id, emoji, userId, createdAt) ==
    [id |-> id, emoji |-> emoji, userId |-> userId, createdAt |-> createdAt]

\* the record handleCommentSubmit builds, as far as the store operations read it
NewComment(id) == [id |-> id, isResolved |-> FALSE, replies |-> <<>>, reactions |-> <<>>]

\* comments.find(comment => comment.id === commentId): its index, 0 if none
findComment(cs, commentId) ==
    IF \E i \in 1..Len(cs) : cs[i].id = commentId
    THEN CHOOSE i \in 1..Len(cs) :
            cs[i].id = commentId /\ \A j \in 1..(i - 1) : cs[j].id # commentId
    ELSE 0

commentIds(cs) == { cs[i].id : i \in 1..Len(cs) }

Reverse(q) == [i \in 1..Len(q) |-> q[Len(q) + 1 - i]]

\* fetchComments: the documents ordered by createdAt descending
fetchedComments(docs) == Reverse(docs)

\* handleCommentSubmit applies the highlight whatever addComment returned
handleCommentSubmitAlwaysHighlights(success, highlights, tempId) == highlights \cup {tempId}

\* handleCommentSubmit after "await addComment(newComment)"
handleCommentSubmit(success, highlights, tempId) ==
    IF success THEN highlights \cup {tempId} ELSE highlights

\* resolveComment: the updater that sets the flag
resolveUpdate(cs, commentId, isResolved) ==
    [i \in 1..Len(cs) |->
        IF cs[i].id = commentId THEN [cs[i] EXCEPT !.isResolved = isResolved] ELSE cs[i]]

\* resolveComment: the updater of the catch block, isResolved: !isResolved
resolveRevert(cs, commentId, isResolved) == resolveUpdate(cs, commentId, ~isResolved)

\* addReply: the updater that appends the local reply, and the one that filters it out
replyUpdate(cs, parentId, replyId) ==
    [i \in 1..Len(cs) |->
        IF cs[i].id = parentId THEN [cs[i] EXCEPT !.replies = Append(@, replyId)] ELSE cs[i]]

replyRevert(cs, parentId, replyId) ==
    [i \in 1..Len(cs) |->
        IF cs[i].id = parentId
        THEN [cs[i] EXCEPT !.replies = SelectSeq(@, LAMBDA r : r # replyId)]
        ELSE cs[i]]

hasPair(rs, userId, emoji) ==
    \E i \in 1..Len(rs) : rs[i].userId = userId /\ rs[i].emoji = emoji

\* reactions.find(reaction => reaction.userId === currentUserId && reaction.emoji === emoji)
firstPair(rs, userId, emoji) ==
    rs[CHOOSE i \in 1..Len(rs) :
          /\ rs[i].userId = userId /\ rs[i].emoji = emoji
          /\ \A j \in 1..(i - 1) : ~(rs[j].userId = userId /\ rs[j].emoji = emoji)]

withoutPair(rs, userId, emoji) ==
    SelectSeq(rs, LAMBDA r : ~(r.userId = userId /\ r.emoji = emoji))

\* the updater of a reaction call that pushes the reaction whether or not it exists
reactionUpdateAlwaysAdds(cs, commentId, emoji, userId, isRemoving, reactionToAdd) ==
    [i \in 1..Len(cs) |->
        IF cs[i].id = commentId
        THEN [cs[i] EXCEPT !.reactions =
                 Append(@, [reactionToAdd EXCEPT !.createdAt = "client"])]
        ELSE cs[i]]

\* addReaction: the updater of the optimistic change
reactionUpdate(cs, commentId, emoji, userId, isRemoving, reactionToAdd) ==
    [i \in 1..Len(cs) |->
        IF cs[i].id = commentId
        THEN [cs[i] EXCEPT !.reactions =
                 IF isRemoving THEN withoutPair(@, userId, emoji)
                 ELSE Append(@, [reactionToAdd EXCEPT !.createdAt = "client"])]
        ELSE cs[i]]

\* addReaction: the updater of the catch block, reactions: reactions
reactionRevert(cs, commentId, reactions) ==
    [i \in 1..Len(cs) |->
        IF cs[i].id = commentId THEN [cs[i] EXCEPT !.reactions = reactions] ELSE cs[i]]

\* addReaction up to its await: reads the comment in the callback's snapshot,
\* decides between removing and adding, and passes the updater to setState
addReactionCall(snapshot, commentId, emoji, userId, newId) ==
    LET reactions == snapshot[findComment(snapshot, commentId)].reactions
        isRemoving == hasPair(reactions, userId, emoji)
    IN  [NoCall EXCEPT !.op = "react", !.id = commentId, !.flag = isRemoving,
                       !.item = IF isRemoving THEN firstPair(reactions, userId, emoji)
                                ELSE Reaction(newId, emoji, userId, "server"),
                       !.saved = reactions]

addReaction(cs, snapshot, commentId, emoji, userId, newId) ==
    LET call == addReactionCall(snapshot, commentId, emoji, userId, newId)
    IN  reactionUpdate(cs, commentId, emoji, userId, call.flag,
                       Reaction(newId, emoji, userId, "server"))

\* updateDoc with arrayUnion / arrayRemove on the reactions of one document
arrayUnion(q, e) == IF \E i \in 1..Len(q) : q[i] = e THEN q ELSE Append(q, e)
arrayRemove(q, e) == SelectSeq(q, LAMBDA x : x # e)

remoteReaction(docs, call) ==
    [i \in 1..Len(docs) |->
        IF docs[i].id = call.id
        THEN [docs[i] EXCEPT !.reactions = IF call.flag THEN arrayRemove(@, call.item)
                                           ELSE arrayUnion(@, call.item)]
        ELSE docs[i]]

removeCall(q, i) == SubSeq(q, 1, i - 1) \o SubSeq(q, i + 1, Len(q))

\* documents the collection can hold when the screenplay is opened
StoredComments ==
    { <<>>,
      <<NewComment(1)>>,
      <<[NewComment(1) EXCEPT !.isResolved = TRUE,
                              !.reactions = <<Reaction(1, "thumbs-up", "user1", "server")>>]>> }

LoadCall == [NoCall EXCEPT !.op = "load"]

\* the screenplay has been opened: the comment load of the mount effect is
\* waiting for its answer, or it has been answered and rendered
InitComments ==
    /\ InitDocument(DefaultSceneDocuments)
    /\ MergeIdle
    /\ LayoutIdle
    /\ AutosaveIdle
    /\ UiIdle
    /\ remote \in StoredComments
    /\ \/ stateComments = <<>> /\ inflight = <<LoadCall>>
       \/ stateComments = fetchedComments(remote) /\ inflight = <<>>
    /\ rendered = stateComments
    /\ submitHighlights = {}
    /\ nextCommentId = FirstCommentId
    /\ lastCall = NoCallDone
    /\ commentSteps = 0

RecordCall(name, call, ok) ==
    /\ lastCall' = [name |-> name, call |-> call, ok |-> ok]
    /\ commentSteps' = commentSteps + 1
    /\ UNCHANGED <<editorVars, mergeVars, layoutVars, autosaveVars, loadVars, uiVars>>

\* the render that a setState has scheduled has run
Rendered == rendered = stateComments

FreshCommentId == nextCommentId < FirstCommentId + MaxCommentIds

Suspend(call) ==
    /\ Len(inflight) < MaxInflight
    /\ inflight' = Append(inflight, call)

\* React renders again: the callbacks capture the current state.comments
Render ==
    /\ ~Rendered
    /\ rendered' = stateComments
    /\ RecordCall("render", NoCall, TRUE)
    /\ UNCHANGED <<stateComments, remote, inflight, submitHighlights, nextCommentId>>

\* the persisted store runs the query of fetchComments
FetchRead(i) ==
    /\ inflight[i].op = "load" /\ ~inflight[i].flag
    /\ inflight' = [inflight EXCEPT ![i].flag = TRUE, ![i].saved = fetchedComments(remote)]
    /\ RecordCall("load-read", inflight[i], TRUE)
    /\ UNCHANGED <<stateComments, rendered, remote, submitHighlights, nextCommentId>>

\* getDocs resolves: fetchComments sets comments to the fetched list
FetchComplete(i) ==
    /\ inflight[i].op = "load" /\ inflight[i].flag
    /\ Rendered
    /\ stateComments' = inflight[i].saved
    /\ inflight' = removeCall(inflight, i)
    /\ RecordCall("load-ok", inflight[i], TRUE)
    /\ UNCHANGED <<rendered, remote, submitHighlights, nextCommentId>>

\* getDocs rejects: fetchComments logs the error
FetchFail(i) ==
    /\ inflight[i].op = "load"
    /\ Rendered
    /\ inflight' = removeCall(inflight, i)
    /\ RecordCall("load-fail", inflight[i], FALSE)
    /\ UNCHANGED <<stateComments, rendered, remote, submitHighlights, nextCommentId>>

\* handleCommentSubmit calls addComment, which awaits addDoc
AddComment ==
    /\ FreshCommentId
    /\ Suspend([NoCall EXCEPT !.op = "create", !.id = nextCommentId])
    /\ nextCommentId' = nextCommentId + 1
    /\ RecordCall("create", [NoCall EXCEPT !.op = "create", !.id = nextCommentId], FALSE)
    /\ UNCHANGED <<stateComments, rendered, remote, submitHighlights>>

\* addDoc resolves: the comment is appended under the id of its document,
\* addComment returns true and handleCommentSubmit applies the highlight
AddCommentOk(i) ==
    /\ inflight[i].op = "create"
    /\ remote' = Append(remote, NewComment(inflight[i].id + DocIdOffset))
    /\ stateComments' = Append(stateComments, NewComment(inflight[i].id + DocIdOffset))
    /\ submitHighlights' = handleCommentSubmit(TRUE, submitHighlights, inflight[i].id)
    /\ inflight' = removeCall(inflight, i)
    /\ RecordCall("create-ok", inflight[i], TRUE)
    /\ UNCHANGED <<rendered, nextCommentId>>

\* addDoc rejects: addComment returns false
AddCommentFail(i) ==
    /\ inflight[i].op = "create"
    /\ submitHighlights' = handleCommentSubmit(FALSE, submitHighlights, inflight[i].id)
    /\ inflight' = removeCall(inflight, i)
    /\ RecordCall("create-fail", inflight[i], FALSE)
    /\ UNCHANGED <<stateComments, rendered, remote, nextCommentId>>

\* resolveComment(commentId, isResolved) up to its await
ResolveComment(commentId, isResolved) ==
    LET idx == findComment(stateComments, commentId)
        call == [NoCall EXCEPT !.op = "resolve", !.id = commentId, !.flag = isResolved,
                               !.prior = IF idx = 0 THEN FALSE
                                         ELSE stateComments[idx].isResolved]
    IN  /\ commentId \in commentIds(rendered)
        /\ stateComments' = resolveUpdate(stateComments, commentId, isResolved)
        /\ Suspend(call)
        /\ RecordCall("resolve", call, TRUE)
        /\ UNCHANGED <<rendered, remote, submitHighlights, nextCommentId>>

ResolveCommentOk(i) ==
    /\ inflight[i].op = "resolve"
    /\ Rendered
    /\ findComment(remote, inflight[i].id) # 0
    /\ remote' = resolveUpdate(remote, inflight[i].id, inflight[i].flag)
    /\ inflight' = removeCall(inflight, i)
    /\ RecordCall("resolve-ok", inflight[i], TRUE)
    /\ UNCHANGED <<stateComments, rendered, submitHighlights, nextCommentId>>

ResolveCommentFail(i) ==
    /\ inflight[i].op = "resolve"
    /\ Rendered
    /\ stateComments' = resolveRevert(stateComments, inflight[i].id, inflight[i].flag)
    /\ inflight' = removeCall(inflight, i)
    /\ RecordCall("resolve-fail", inflight[i], FALSE)
    /\ UNCHANGED <<rendered, remote, submitHighlights, nextCommentId>>

\* addReply(parentId, replyText) up to its await
AddReply(parentId) ==
    LET call == [NoCall EXCEPT !.op = "reply", !.id = parentId,
                               !.item = [NoReaction EXCEPT !.id = nextCommentId]]
    IN  /\ parentId \in commentIds(rendered)
        /\ FreshCommentId
        /\ stateComments' = replyUpdate(stateComments, parentId, nextCommentId)
        /\ nextCommentId' = nextCommentId + 1
        /\ Suspend(call)
        /\ RecordCall("reply", call, TRUE)
        /\ UNCHANGED <<rendered, remote, submitHighlights>>

AddReplyOk(i) ==
    /\ inflight[i].op = "reply"
    /\ Rendered
    /\ findComment(remote, inflight[i].id) # 0
    /\ remote' = replyUpdate(remote, inflight[i].id, inflight[i].item.id)
    /\ inflight' = removeCall(inflight, i)
    /\ RecordCall("reply-ok", inflight[i], TRUE)
    /\ UNCHANGED <<stateComments, rendered, submitHighlights, nextCommentId>>

AddReplyFail(i) ==
    /\ inflight[i].op = "reply"
    /\ Rendered
    /\ stateComments' = replyRevert(stateComments, inflight[i].id, inflight[i].item.id)
    /\ inflight' = removeCall(inflight, i)
    /\ RecordCall("reply-fail", inflight[i], FALSE)
    /\ UNCHANGED <<rendered, remote, submitHighlights, nextCommentId>>

\* addReaction(commentId, emoji, currentUserId) up to its await
AddReaction(commentId, emoji, userId) ==
    LET call == addReactionCall(rendered, commentId, emoji, userId, nextCommentId)
    IN  /\ commentId \in commentIds(rendered)
        /\ call.flag \/ FreshCommentId
        /\ stateComments' = addReaction(stateComments, rendered, commentId, emoji, userId,
                                        nextCommentId)
        /\ nextCommentId' = IF call.flag THEN nextCommentId ELSE nextCommentId + 1
        /\ Suspend(call)
        /\ RecordCall("react", call, TRUE)
        /\ UNCHANGED <<rendered, remote, submitHighlights>>

AddReactionOk(i) ==
    /\ inflight[i].op = "react"
    /\ Rendered
    /\ findComment(remote, inflight[i].id) # 0
    /\ remote' = remoteReaction(remote, inflight[i])
    /\ inflight' = removeCall(inflight, i)
    /\ RecordCall("react-ok", inflight[i], TRUE)
    /\ UNCHANGED <<stateComments, rendered, submitHighlights, nextCommentId>>

AddReactionFail(i) ==
    /\ inflight[i].op = "react"
    /\ Rendered
    /\ stateComments' = reactionRevert(stateComments, inflight[i].id, inflight[i].saved)
    /\ inflight' = removeCall(inflight, i)
    /\ RecordCall("react-fail", inflight[i], FALSE)
    /\ UNCHANGED <<rendered, remote, submitHighlights, nextCommentId>>

MoreCalls == commentSteps < MaxCommentSteps

NextComments ==
    \/ MoreCalls /\ Render
    \/ MoreCalls /\ \E i \in 1..Len(inflight) : FetchRead(i)
    \/ MoreCalls /\ \E i \in 1..Len(inflight) : FetchComplete(i)
    \/ MoreCalls /\ \E i \in 1..Len(inflight) : FetchFail(i)
    \/ MoreCalls /\ AddComment
    \/ MoreCalls /\ \E i \in 1..Len(inflight) : AddCommentOk(i)
    \/ MoreCalls /\ \E i \in 1..Len(inflight) : AddCommentFail(i)
    \/ MoreCalls /\ \E commentId \in commentIds(rendered), isResolved \in BOOLEAN :
         ResolveComment(commentId, isResolved)
    \/ MoreCalls /\ \E i \in 1..Len(inflight) : ResolveCommentOk(i)
    \/ MoreCalls /\ \E i \in 1..Len(inflight) : ResolveCommentFail(i)
    \/ MoreCalls /\ \E parentId \in commentIds(rendered) : AddReply(parentId)
    \/ MoreCalls /\ \E i \in 1..Len(inflight) : AddReplyOk(i)
    \/ MoreCalls /\ \E i \in 1..Len(inflight) : AddReplyFail(i)
    \/ MoreCalls /\ \E commentId \in commentIds(rendered), emoji \in Emojis, userId \in Users :
         AddReaction(commentId, emoji, userId)
    \/ MoreCalls /\ \E i \in 1..Len(inflight) : AddReactionOk(i)
    \/ MoreCalls /\ \E i \in 1..Len(inflight) : AddReactionFail(i)

SpecComments == InitComments /\ [][NextComments]_vars


(***************************************************************************)
(* Properties of the Comment Anchor Store (specification SpecComments).     *)
(***************************************************************************)
reactionsOf(cs, commentId) == cs[findComment(cs, commentId)].reactions

pairsOf(rs) == { <<rs[i].userId, rs[i].emoji>> : i \in 1..Len(rs) }

\* C14: when the persistence call of resolve(commentId, v) fails, the
\* comment's isResolved flag is set back to the value it had before the call,
\* whatever that value was, also when it already equalled v.
C14_FailedResolveRestoresPrior ==
    [][ (lastCall'.name = "resolve-fail"
           /\ findComment(stateComments', lastCall'.call.id) # 0)
          => stateComments'[findComment(stateComments', lastCall'.call.id)].isResolved
                = lastCall'.call.prior ]_vars

\* C15: a create whose persistence fails reports failure, leaves the Comment
\* Anchor Store as it was and applies no highlight; a created comment and its
\* highlight are there only once the create call has completed successfully.
C15_FailedCreateLeavesNoTrace ==
    [][ /\ lastCall'.name \in {"create", "create-fail"}
            => /\ ~lastCall'.ok
               /\ stateComments' = stateComments
               /\ submitHighlights' = submitHighlights
        /\ lastCall'.name = "create-ok"
            => /\ lastCall'.ok
               /\ stateComments' = Append(stateComments,
                                          NewComment(lastCall'.call.id + DocIdOffset))
               /\ submitHighlights' = submitHighlights \cup {lastCall'.call.id}
        /\ \A t \in submitHighlights' : (t + DocIdOffset) \in commentIds(remote')
        /\ \A c \in commentIds(stateComments') :
              c > DocIdOffset => c \in commentIds(remote') ]_vars

\* a create has failed while another create of the session had succeeded
C15_Witness ==
    /\ lastCall.name = "create-fail"
    /\ ~lastCall.ok
    /\ lastCall.call.id \notin submitHighlights
    /\ submitHighlights # {}

\* C16: after any sequence and interleaving of reaction toggles, no comment
\* holds more than one reaction with the same (userId, emoji) pair.
C16_OneReactionPerUserAndEmoji ==
    \A i \in 1..Len(stateComments) :
        \A a, b \in 1..Len(stateComments[i].reactions) :
            (/\ stateComments[i].reactions[a].userId = stateComments[i].reactions[b].userId
             /\ stateComments[i].reactions[a].emoji = stateComments[i].reactions[b].emoji)
            => a = b

\* the store after the same toggle is called once more on the state the
\* toggle of this step leaves, rendered
toggledAgain ==
    addReaction(stateComments', stateComments', lastCall'.call.id,
                lastCall'.call.item.emoji, lastCall'.call.item.userId, nextCommentId')

firstToggle ==
    /\ lastCall'.name = "react"
    /\ Rendered
    /\ findComment(stateComments, lastCall'.call.id) # 0

\* C17 (as stated): the reaction toggle called twice with the same comment,
\* emoji and user, the second call after the first has completed, leaves the
\* comment's reactions equal to what they were before the first call.
C17_ToggleTwiceRestoresReactions ==
    [][ firstToggle
          => reactionsOf(toggledAgain, lastCall'.call.id)
                = reactionsOf(stateComments, lastCall'.call.id) ]_vars

\* C17 (amended): the two calls leave the set of (userId, emoji) pairs of the
\* comment as it was; the reaction list itself is as it was when the pair was
\* absent before the first call.
C17_ToggleTwiceRestoresPairs ==
    [][ firstToggle
          => /\ pairsOf(reactionsOf(toggledAgain, lastCall'.call.id))
                   = pairsOf(reactionsOf(stateComments, lastCall'.call.id))
             /\ ~lastCall'.call.flag
                   => reactionsOf(toggledAgain, lastCall'.call.id)
                         = reactionsOf(stateComments, lastCall'.call.id) ]_vars

\* a toggle has removed a reaction that the comment held, and one has added one
C17_Witness ==
    /\ lastCall.name = "react"
    /\ lastCall.call.flag
    /\ lastCall.call.saved # <<>>
    /\ Len(inflight) = 1

\* C19: a top-level comment that a successful create has put in the Comment
\* Anchor Store is never removed from it by a later operation or completion.
C19_CreatedCommentsStay ==
    [][ \A c \in commentIds(stateComments) :
           c > DocIdOffset => c \in commentIds(stateComments') ]_vars


(***************************************************************************)
(* Autosave of ScreenplayEditor: the effect on [state.blocks, hasChanges,   *)
(* isSceneReordering] that clears autosaveTimerRef and arms a new timer.    *)
(* The scene navigator reports the reorder status through                   *)
(* onReorderStatusChange and hands its new order to handleScenesReordered;  *)
(* when it makes these calls is left open.                                  *)
(***************************************************************************)
AutosaveDelay == 3000
MaxAutosaveTicks == 8

\* the effect with no regard for isSceneReordering
autosaveEffectIgnoresReorder(bs, changes, reordering, at) ==
    IF Len(bs) > 0 /\ changes THEN at + AutosaveDelay ELSE NoTimer

\* the autosave effect: the timer it leaves in autosaveTimerRef
autosaveEffect(bs, changes, reordering, at) ==
    IF Len(bs) > 0 /\ changes /\ ~reordering THEN at + AutosaveDelay ELSE NoTimer

\* the timeouts left when the effect arms a timer without clearing the one of the ref
autosaveTimersKeepsOld(timers, ref, armed) ==
    timers \cup (IF armed = NoTimer THEN {} ELSE {armed})

\* the timeouts after clearTimeout(autosaveTimerRef.current) and the setTimeout
autosaveTimers(timers, ref, armed) ==
    (timers \ {ref}) \cup (IF armed = NoTimer THEN {} ELSE {armed})

\* the effect runs after a render in which one of its dependencies has changed
AutosaveEffectOn(changed) ==
    LET armed == autosaveEffect(blocks', hasChanges', isSceneReordering', now') IN
    /\ autosaveTimer' = IF changed THEN armed ELSE autosaveTimer
    /\ pendingTimers' = IF changed THEN autosaveTimers(pendingTimers, autosaveTimer, armed)
                        ELSE pendingTimers

AutosaveEffect ==
    AutosaveEffectOn(<<blocks', hasChanges', isSceneReordering'>>
                        # <<blocks, hasChanges, isSceneReordering>>)

\* the effect on [state.blocks] that marks changes
MarkChanges == hasChanges' = (hasChanges \/ blocks' # blocks)

\* the screenplay is loaded and mounted: both effects have run once
InitAutosave ==
    /\ InitDocument(StoredSceneDocuments)
    /\ MergeIdle
    /\ LayoutIdle
    /\ CommentsIdle
    /\ hasChanges = TRUE
    /\ isSceneReordering = FALSE
    /\ autosaveTimer = autosaveEffect(flattenScenes(StoredSceneDocuments), TRUE, FALSE, StartTime)
    /\ pendingTimers = autosaveTimers({}, NoTimer, autosaveTimer)
    /\ lastAutosave = [NoAutosave EXCEPT !.mutatedAt = StartTime]
    /\ UiIdle

AutosaveFrame ==
    UNCHANGED <<activeBlock, showSuggestions, lastKeyPressTime, nextId, pendingSync, lastOp,
                steps, lastEnter, mergeVars, layoutVars, commentVars, loadVars, uiVars>>

\* Tab on the active block: an edit of the Block Store
AutosaveEdit ==
    LET next == handleTabKey(EditorState, blocks, activeBlock, nextId) IN
    /\ Len(next.undoStack) <= MaxUndo
    /\ blocks' = next.blocks /\ undoStack' = next.undoStack /\ redoStack' = next.redoStack
    /\ MarkChanges
    /\ lastAutosave' = [lastAutosave EXCEPT !.name = "edit",
                                           !.mutatedAt = IF blocks' # blocks THEN now ELSE @]
    /\ UNCHANGED <<now, scenes, isSceneReordering>>
    /\ AutosaveEffect
    /\ AutosaveFrame

\* the navigator calls onReorderStatusChange(status)
ReorderStatusChange(status) ==
    /\ status # isSceneReordering
    /\ isSceneReordering' = status
    /\ lastAutosave' = [lastAutosave EXCEPT !.name = IF status THEN "reorder-start"
                                                    ELSE "reorder-end"]
    /\ UNCHANGED <<blocks, undoStack, redoStack, now, scenes, hasChanges>>
    /\ AutosaveEffect
    /\ AutosaveFrame

\* the navigator calls onScenesReordered(order)
AutosaveScenesReordered(order) ==
    LET next == handleScenesReordered(EditorState, blocks, order) IN
    /\ blocks' = next.blocks /\ undoStack' = next.undoStack /\ redoStack' = next.redoStack
    /\ scenes' = order
    /\ hasChanges' = TRUE
    /\ lastAutosave' = [lastAutosave EXCEPT !.name = "reordered",
                                           !.mutatedAt = IF blocks' # blocks THEN now ELSE @]
    /\ UNCHANGED <<now, isSceneReordering>>
    /\ AutosaveEffectOn(TRUE)
    /\ AutosaveFrame

\* the timer fires: the callback starts handleSaveWithEditorState
AutosaveFires ==
    /\ \E t \in pendingTimers :
         /\ now >= t
         /\ pendingTimers' = pendingTimers \ {t}
         /\ autosaveTimer' = IF t = autosaveTimer THEN NoTimer ELSE autosaveTimer
    /\ lastAutosave' = [lastAutosave EXCEPT !.name = "autosave", !.saving = TRUE]
    /\ UNCHANGED <<blocks, undoStack, redoStack, now, scenes, hasChanges, isSceneReordering>>
    /\ AutosaveFrame

\* handleSave returns: after a successful save nothing is left to save
SaveCompletes(success) ==
    /\ lastAutosave.saving
    /\ hasChanges' = (hasChanges /\ ~success)
    /\ lastAutosave' = [lastAutosave EXCEPT !.name = "saved", !.saving = FALSE]
    /\ UNCHANGED <<blocks, undoStack, redoStack, now, scenes, isSceneReordering>>
    /\ AutosaveEffect
    /\ AutosaveFrame

\* time passes
AutosaveTick ==
    /\ now < StartTime + MaxAutosaveTicks * TickMs
    /\ now' = now + TickMs
    /\ lastAutosave' = [lastAutosave EXCEPT !.name = "tick"]
    /\ UNCHANGED <<blocks, undoStack, redoStack, scenes, hasChanges, isSceneReordering,
                   autosaveTimer, pendingTimers>>
    /\ AutosaveFrame

NextAutosave ==
    \/ AutosaveEdit
    \/ \E status \in BOOLEAN : ReorderStatusChange(status)
    \/ \E order \in Orderings(scenes) : AutosaveScenesReordered(order)
    \/ AutosaveFires
    \/ \E success \in BOOLEAN : SaveCompletes(success)
    \/ AutosaveTick

SpecAutosave == InitAutosave /\ [][NextAutosave]_vars

\* C20: no autosave is triggered while a scene reorder is in progress: when
\* the reorder starts a pending autosave timer is cancelled, and no timer is
\* armed until the reorder has completed.
C20_NoAutosaveWhileReordering ==
    [][ /\ isSceneReordering' => autosaveTimer' = NoTimer
        /\ lastAutosave'.name = "autosave" => ~isSceneReordering ]_vars

\* a reorder is in progress with changes to save, longer than the autosave
\* delay after the timer was last armed, and the new order has been handed over
C20_Witness ==
    /\ isSceneReordering
    /\ hasChanges
    /\ lastAutosave.name = "reordered"
    /\ now >= StartTime + AutosaveDelay
    /\ autosaveTimer = NoTimer
    /\ blocks # flattenScenes(StoredSceneDocuments)


MaxSceneBlocks == 4

\* the members of a set of integers in increasing order
ascending(S) ==
    CHOOSE f \in [1..Cardinality(S) -> S] : \A i, j \in 1..Cardinality(S) : i < j => f[i] < f[j]

SceneBlockTypes == {"action", "character", "dialogue"}
SceneHeadingTexts == { EmptyText, <<"I", "N", "T", ".", " ", "A">> }

\* the scene documents of a screenplay whose n blocks have ids 1..n, whose
\* headings are the blocks of heads, stored by the grouping rule of the save
sceneDocumentsOf(n, heads, type, heading) ==
    LET hs == ascending(heads) IN
    [k \in 1..Len(hs) |->
        [id |-> hs[k], scene_heading |-> heading, order |-> k - 1,
         blocks |-> [j \in 1..((IF k = Len(hs) THEN n + 1 ELSE hs[k + 1]) - hs[k] - 1) |->
                        Block(hs[k] + j, type, <<"x">>)]]]

SceneDocumentLists ==
    { sceneDocumentsOf(n, heads \cup {1}, type, heading) :
        n \in 1..MaxSceneBlocks, heads \in SUBSET (1..MaxSceneBlocks),
        type \in SceneBlockTypes, heading \in SceneHeadingTexts }

InitScenes ==
    /\ \E sceneDocs \in SceneDocumentLists :
         /\ \A k \in 1..Len(sceneDocs) : sceneDocs[k].id + Len(sceneDocs[k].blocks) <= MaxSceneBlocks
         /\ InitDocument(sceneDocs)
    /\ MergeIdle
    /\ LayoutIdle
    /\ CommentsIdle
    /\ AutosaveIdle
    /\ UiIdle

NextScenes ==
    MoreSteps /\ \E order \in Orderings(scenes) : ScenesReordered(order)

SpecScenes == InitScenes /\ [][NextScenes]_vars

\* ids of the scene-heading blocks of a store, in store order
headingIds(bs) ==
    LET hs == SelectSeq(bs, LAMBDA b : b.type = "scene-heading")
    IN  [i \in 1..Len(hs) |-> hs[i].id]

\* handleScenesReordered's sceneBlocksMap: the scenes of a store
regroupScenes(bs) ==
    [i \in 1..Len(headingIds(bs)) |->
        [id |-> headingIds(bs)[i], blocks |-> sceneBlocksOf(bs, headingIds(bs)[i])]]

\* the contiguous run of a store that starts at block h: the heading and what
\* follows it up to the next heading
runFrom(bs, h) ==
    LET later == {k \in (h + 1)..Len(bs) : bs[k].type = "scene-heading"}
        stop == IF later = {} THEN Len(bs) + 1 ELSE CHOOSE k \in later : \A m \in later : k <= m
    IN  SubSeq(bs, h, stop - 1)

RECURSIVE runsInOrder(_, _)
runsInOrder(bs, order) ==
    IF order = <<>> THEN <<>>
    ELSE runFrom(bs, findIndex(bs, Head(order))) \o runsInOrder(bs, Tail(order))

isPermutation(p, q) ==
    /\ Len(p) = Len(q)
    /\ {p[i] : i \in 1..Len(p)} = {q[i] : i \in 1..Len(q)}
    /\ Cardinality({p[i] : i \in 1..Len(p)}) = Len(p)

\* C22: given a new scene order that is a permutation of the scene-heading ids
\* of the store, scene reorder returns the concatenation, in the new order, of
\* each scene's contiguous run, the order of blocks inside every scene unchanged
\* (the derived number labels are recomputed over the result).
C22_ReorderConcatenatesRuns ==
    [][ (lastOp'.name = "reorder" /\ isPermutation(scenes', headingIds(blocks)))
          => blocks' = updateBlockNumbers(runsInOrder(blocks, scenes')) ]_vars

\* three scenes, one of them with a block under its heading, have been put in
\* an order that moves every scene
C22_Witness ==
    /\ lastOp.name = "reorder"
    /\ Len(scenes) > 2
    /\ Len(loadedSceneDocuments) = Len(scenes)
    /\ headingIds(blocks) = scenes
    /\ \A i \in 1..Len(scenes) : scenes[i] # loadedSceneDocuments[i].id
    /\ \E i \in 1..Len(blocks) : blocks[i].type # "scene-heading"

\* the scenes as the documents list them: each heading block followed by its blocks
scenesOf(sceneDocs) ==
    [k \in 1..Len(sceneDocs) |->
        [id |-> sceneDocs[k].id,
         blocks |-> <<[id |-> sceneDocs[k].id, type |-> "scene-heading",
                       content |-> sceneDocs[k].scene_heading,
                       number |-> sceneDocs[k].order + 1]>> \o sceneDocs[k].blocks]]

\* C23: flattening a list of scenes into one Block Store and regrouping that
\* store by scene boundaries yields the original list of scenes, with the
\* same blocks in the same order in every scene.
C23_RegroupOfFlattenIsIdentity ==
    [][ (lastOp'.name = "reorder" /\ blocks = flattenScenes(loadedSceneDocuments))
          => regroupScenes(blocks) = scenesOf(loadedSceneDocuments) ]_vars

\* a store flattened from two scenes or more, one of them with blocks of its
\* own, has been regrouped by a reorder
C23_Witness ==
    /\ lastOp.name = "reorder"
    /\ steps = 1
    /\ Len(loadedSceneDocuments) >= 2
    /\ \E k \in 1..Len(loadedSceneDocuments) : loadedSceneDocuments[k].blocks # <<>>


(***************************************************************************)
(* Retyping: the store holds one scene whose second block has any of the    *)
(* other types and one of a few contents; the user focuses a block and      *)
(* picks formats for it.                                                    *)
(***************************************************************************)
FormatContents == { EmptyText, <<"a">>, <<" ", "a", " ">>, <<"(", "a", ")">>,
                    <<"(", "a">>, <<" ", "(", "a", ")">> }

FormatDocuments ==
    { <<[id |-> 1, scene_heading |-> <<"I", "N", "T", ".", " ", "A">>, order |-> 0,
         blocks |-> <<Block(2, BLOCK_TYPES[t], content)>>]>> :
        t \in 2..Len(BLOCK_TYPES), content \in FormatContents }

InitFormat ==
    /\ \E sceneDocs \in FormatDocuments : InitDocument(sceneDocs)
    /\ MergeIdle
    /\ LayoutIdle
    /\ CommentsIdle
    /\ AutosaveIdle
    /\ UiIdle

NextFormat ==
    \/ MoreSteps /\ \E blockId \in IdsEver : Focus(blockId)
    \/ MoreSteps /\ \E i \in 1..Len(BLOCK_TYPES) : FormatChange(BLOCK_TYPES[i])

SpecFormat == InitFormat /\ [][NextFormat]_vars

\* the step is a format change of a block of the store
formatStep == lastOp'.name = "format" /\ lastOp'.found

\* position of the block the format change is about
formatIndex == findIndex(blocks, activeBlock)

\* C26: onFormatChange gives the block a fresh id, different from every id in
\* the store, exactly when the new type is scene-heading and the block's
\* current type is not; in every other retype the block keeps its id, and no
\* other block's id, type or content changes.
C26_FreshIdOnlyForNewSceneHeading ==
    [][ formatStep =>
          /\ Len(blocks') = Len(blocks)
          /\ IF lastOp'.type = "scene-heading" /\ blocks[formatIndex].type # "scene-heading"
             THEN blocks'[formatIndex].id \notin blockIds(blocks)
             ELSE blocks'[formatIndex].id = blocks[formatIndex].id
          /\ \A j \in 1..Len(blocks) : j # formatIndex =>
                /\ blocks'[j].id = blocks[j].id
                /\ blocks'[j].type = blocks[j].type
                /\ blocks'[j].content = blocks[j].content ]_vars

\* the second block of a two-block store has become a scene heading under a new id
C26_Witness ==
    /\ lastOp.name = "format"
    /\ lastOp.found
    /\ lastOp.type = "scene-heading"
    /\ lastOp.id = 2
    /\ Len(blocks) = 2
    /\ blocks[2].type = "scene-heading"
    /\ blocks[2].id \notin {1, 2}
    /\ blocks[1].id = 1

UppercaseTypes == {"scene-heading", "character", "transition", "shot"}

\* C27: after onFormatChange to any of scene-heading, character, transition or
\* shot the block's content is entirely uppercase, whatever type the block had
\* before the call.
C27_RetypeUppercases ==
    [][ (formatStep /\ lastOp'.type \in UppercaseTypes)
          => blocks'[formatIndex].content = toUpperCase(blocks'[formatIndex].content) ]_vars

hasParen(s) == \E i \in 1..Len(s) : s[i] \in {"(", ")"}

\* "(x)" with no parenthesis in x
wrappedOnce(s) ==
    /\ Len(s) >= 2
    /\ startsWith(s, <<"(">>)
    /\ endsWith(s, <<")">>)
    /\ ~hasParen(SubSeq(s, 2, Len(s) - 1))

\* C28: onFormatChange from parenthetical to any other type (scene-heading
\* included) stores the content without its wrapping parentheses, and
\* onFormatChange to parenthetical stores content that starts with '(' and
\* ends with ')'; so retyping a block with unparenthesised content to
\* parenthetical and then to action gives back the original trimmed content.
C28_ParenthesesWrapAndStrip ==
    [][ formatStep =>
          /\ (/\ blocks[formatIndex].type = "parenthetical"
              /\ lastOp'.type # "parenthetical"
              /\ wrappedOnce(blocks[formatIndex].content))
                => ~hasParen(blocks'[formatIndex].content)
          /\ lastOp'.type = "parenthetical"
                => /\ startsWith(blocks'[formatIndex].content, <<"(">>)
                   /\ endsWith(blocks'[formatIndex].content, <<")">>)
          /\ (/\ lastOp.name = "format" /\ lastOp.found /\ lastOp.type = "parenthetical"
              /\ lastOp'.type = "action"
              /\ undoStack # <<>>
              /\ ~hasParen(undoStack[Len(undoStack)][formatIndex].content))
                => blocks'[formatIndex].content
                     = trim(undoStack[Len(undoStack)][formatIndex].content) ]_vars


(***************************************************************************)
(* Typing: Enter and content changes on a store that holds a scene heading  *)
(* alone or followed by one block of any other type.                        *)
(***************************************************************************)
MaxTypingSteps == 2

TypingContents == { EmptyText, <<"c", "u", "t">> }

TypingDocuments ==
    { <<[id |-> 1, scene_heading |-> EmptyText, order |-> 0, blocks |-> <<>>]>> }
    \cup
    { <<[id |-> 1, scene_heading |-> EmptyText, order |-> 0,
         blocks |-> <<Block(2, BLOCK_TYPES[t], content)>>]>> :
        t \in 2..Len(BLOCK_TYPES), content \in TypingContents }

\* what the block's element may hold when Enter is pressed
TypingEnterTexts == EnterTexts \cup { <<"(", "a", ")", "b">>, <<"a", ")">> }

\* what onContentChange may be handed as newContent and forcedType
TypingContentTexts == { EmptyText, <<" ">>, <<"a">>, <<"i", "n", "t", ".", " ", "x">> }
TypingForcedTypes == { NoFormat, "character", "action" }

InitTyping ==
    /\ \E sceneDocs \in TypingDocuments : InitDocument(sceneDocs)
    /\ MergeIdle
    /\ LayoutIdle
    /\ CommentsIdle
    /\ AutosaveIdle
    /\ UiIdle

MoreTyping == steps < MaxTypingSteps

NextTyping ==
    \/ MoreTyping /\ \E blockId \in IdsEver, text \in TypingEnterTexts :
         \E caretPos \in 0..Len(text) : KeyDownEnter(blockId, text, caretPos)
    \/ MoreTyping /\ \E blockId \in IdsEver, newContent \in TypingContentTexts,
                        forcedType \in TypingForcedTypes :
         ContentChangeWith(blockId, newContent, forcedType)
    \/ MoreTyping /\ ContentChangeResume

SpecTyping == InitTyping /\ [][NextTyping]_vars

\* the step is a content change of a block of the store
contentStep == lastOp'.name = "content" /\ lastOp'.found

\* position of the block the content change or the Enter is about
opIndex == findIndex(blocks, lastOp'.id)

\* C24 as the spec states it: onContentChange removes the target block if and
\* only if the new text is empty, the store holds more than one block and no
\* forcedType was supplied; in every other case the block stays in the store
\* at the same position and holds the new text.
C24_RemovesIffEmptyText ==
    [][ contentStep =>
          IF lastOp'.text = EmptyText /\ Len(blocks) > 1 /\ lastOp'.type = NoFormat
          THEN lastOp'.id \notin blockIds(blocks')
          ELSE /\ Len(blocks') >= opIndex
               /\ blocks'[opIndex].id = lastOp'.id
               /\ blocks'[opIndex].content = lastOp'.text ]_vars

\* C24, amended: onContentChange removes the target block if and only if the
\* new text is empty or whitespace only, the store holds more than one block
\* and no forcedType was supplied; in every other case the store the handler
\* writes (at once, or after the registry call for a scene-heading text) has
\* the block at the same position holding the new text.
C24_RemovesIffBlankText ==
    [][ /\ contentStep =>
          IF trim(lastOp'.text) = EmptyText /\ Len(blocks) > 1 /\ lastOp'.type = NoFormat
          THEN /\ lastOp'.id \notin blockIds(blocks')
               /\ Len(blocks') = Len(blocks) - 1
               /\ pendingSync' = pendingSync
          ELSE LET written == IF pendingSync' # pendingSync
                              THEN pendingSync'[Len(pendingSync')]
                              ELSE blocks'
               IN  /\ Len(written) >= opIndex
                   /\ written[opIndex].id = lastOp'.id
                   /\ written[opIndex].content = lastOp'.text
                   /\ pendingSync' # pendingSync => blocks' = blocks
        /\ lastOp'.name = "content-resume"
             => blocks' = updateBlockNumbers(Head(pendingSync)) ]_vars

\* a content change with a text of one space has removed a block
C24_Witness ==
    /\ lastOp.name = "content"
    /\ lastOp.found
    /\ lastOp.text = <<" ">>
    /\ lastOp.type = NoFormat
    /\ lastOp.id \notin blockIds(blocks)
    /\ Len(blocks) >= 1

\* C25: when onContentChange changes a block from a non-character type to
\* character with non-empty text, exactly one empty dialogue block is inserted
\* immediately after it and the focus stays on the edited block (it does not
\* move to the inserted dialogue block); when the block already had type
\* character, no block is inserted.
C25_NewCharacterGetsDialogueFocusStays ==
    [][ (contentStep /\ lastOp'.type = "character" /\ trim(lastOp'.text) # EmptyText) =>
          IF blocks[opIndex].type # "character"
          THEN /\ Len(blocks') = Len(blocks) + 1
               /\ blocks'[opIndex].type = "character"
               /\ blocks'[opIndex + 1].type = "dialogue"
               /\ blocks'[opIndex + 1].content = EmptyText
               /\ blocks'[opIndex + 1].id \notin blockIds(blocks)
               /\ lastOp'.focus # blocks'[opIndex + 1].id
          ELSE Len(blocks') = Len(blocks) ]_vars

\* the step is an Enter handled for a block of the given type
enterStepOn(type) ==
    lastOp'.name = "enter" /\ lastOp'.found /\ lastOp'.type = type

\* C29: after onEnter on a parenthetical block the content stored in that
\* block is well-formed (it starts with '(' and ends with ')') for every text
\* before the caret, including text that contains neither parenthesis, and a
\* new dialogue block holding the text after the caret with a leading ')'
\* removed is inserted immediately after it.
C29_EnterKeepsParentheticalWellFormed ==
    [][ enterStepOn("parenthetical") =>
          /\ Len(blocks') = Len(blocks) + 1
          /\ startsWith(blocks'[opIndex].content, <<"(">>)
          /\ endsWith(blocks'[opIndex].content, <<")">>)
          /\ blocks'[opIndex + 1].type = "dialogue"
          /\ trim(blocks'[opIndex + 1].content)
               = trim(stripLeadingParen(substringFrom(lastOp'.text, lastOp'.caret))) ]_vars

\* C30 as the spec states it: onEnter on a transition block sets that block's
\* content to the uppercased text before the caret and inserts exactly one new
\* empty scene-heading block immediately after it, which becomes the focus
\* target; this holds for every caret position, including the caret at offset
\* 0 of a non-empty transition.
C30_EnterOnTransitionKeepsTextBefore ==
    [][ enterStepOn("transition") =>
          /\ blocks'[opIndex].content = toUpperCase(substringTo(lastOp'.text, lastOp'.caret))
          /\ Len(blocks') = Len(blocks) + 1
          /\ blocks'[opIndex + 1].type = "scene-heading"
          /\ blocks'[opIndex + 1].content = EmptyText
          /\ lastOp'.focus = blocks'[opIndex + 1].id ]_vars

\* C30, amended: onEnter on a transition block sets that block's content to
\* the trimmed, uppercased text before the caret, or, when that text is blank,
\* to the block's trimmed, uppercased stored content, and inserts exactly one
\* new empty scene-heading block immediately after it, which becomes the focus
\* target.
C30_EnterOnTransitionKeepsTextBeforeOrStored ==
    [][ enterStepOn("transition") =>
          /\ blocks'[opIndex].content
               = IF trim(substringTo(lastOp'.text, lastOp'.caret)) # EmptyText
                 THEN toUpperCase(trim(substringTo(lastOp'.text, lastOp'.caret)))
                 ELSE toUpperCase(trim(blocks[opIndex].content))
          /\ blocks'[opIndex].type = "transition"
          /\ blocks'[opIndex].id = lastOp'.id
          /\ Len(blocks') = Len(blocks) + 1
          /\ blocks'[opIndex + 1].type = "scene-heading"
          /\ blocks'[opIndex + 1].content = EmptyText
          /\ blocks'[opIndex + 1].id \notin blockIds(blocks)
          /\ lastOp'.focus = blocks'[opIndex + 1].id
          /\ \A j \in 1..Len(blocks) : j # opIndex =>
                blocks'[IF j < opIndex THEN j ELSE j + 1].id = blocks[j].id ]_vars

\* Enter with the caret at offset 0 of a non-empty transition has kept the
\* stored text and inserted the scene heading
C30_Witness ==
    /\ lastOp.name = "enter"
    /\ lastOp.found
    /\ lastOp.type = "transition"
    /\ lastOp.caret = 0
    /\ lastOp.text # EmptyText
    /\ Len(blocks) = 3
    /\ blocks[2].content = <<"C", "U", "T">>
    /\ blocks[3].type = "scene-heading"
    /\ blocks[3].id = lastOp.focus


\* the text on both sides of the caret of the Enter is blank
enterOnBlankText ==
    /\ trim(substringTo(lastOp'.text, lastOp'.caret)) = EmptyText
    /\ trim(substringFrom(lastOp'.text, lastOp'.caret)) = EmptyText

\* C31: onEnter on a character block that is empty on both sides of the caret
\* does not split: the block count is unchanged and the current block itself
\* (same id, same position) changes type to action if the immediately
\* following block is dialogue, and to dialogue otherwise.
C31_EmptyCharacterTogglesInPlace ==
    [][ (enterStepOn("character") /\ enterOnBlankText) =>
          /\ Len(blocks') = Len(blocks)
          /\ blocks'[opIndex].id = lastOp'.id
          /\ blocks'[opIndex].type =
                IF opIndex < Len(blocks) /\ blocks[opIndex + 1].type = "dialogue"
                THEN "action" ELSE "dialogue" ]_vars


(***************************************************************************)
(* Tab: the user focuses a block and presses Tab.                           *)
(***************************************************************************)
InitTab ==
    /\ \E sceneDocs \in FormatDocuments : InitDocument(sceneDocs)
    /\ MergeIdle
    /\ LayoutIdle
    /\ CommentsIdle
    /\ AutosaveIdle
    /\ UiIdle

NextTab ==
    \/ MoreSteps /\ \E blockId \in IdsEver : Focus(blockId)
    \/ MoreSteps /\ KeyDownTab

SpecTab == InitTab /\ [][NextTab]_vars

\* the type reached from t by n presses of Tab
RECURSIVE tabbed(_, _)
tabbed(t, n) == IF n = 0 THEN t ELSE tabbed(nextType(t), n - 1)

marginUsed ==
    IF lastOp.name = "positioned" THEN cardMargin
    ELSE IF layoutIn.useCompactMode THEN 12 ELSE 16

\* accumulatedBottom after the first i cards, by the rule position + height + margin
RECURSIVE accumulatedBottom(_)
accumulatedBottom(i) ==
    IF i = 0 THEN 0
    ELSE IF ~positioned[i].placed THEN accumulatedBottom(i - 1)
    ELSE positioned[i].position + positioned[i].height + marginUsed

alignedPosition(i) == anchorOf(positioned[i].id) + cardVerticalOffset

\* C33: in the layout pass a card whose aligned position (anchor offset plus
\* vertical offset) is not above the running accumulatedBottom is placed
\* exactly at its aligned position, every other card is placed at
\* accumulatedBottom + margin, and accumulatedBottom then becomes position +
\* height + margin; hence a card that had to be pushed down is separated from
\* the card before it by at least the margin.
C33_RunningBottomIncludesMargin ==
    layoutDone =>
        \A i \in 1..Len(positioned) :
            positioned[i].placed =>
                /\ positioned[i].position =
                      IF alignedPosition(i) >= accumulatedBottom(i - 1)
                      THEN alignedPosition(i)
                      ELSE accumulatedBottom(i - 1) + marginUsed
                /\ \A j \in 1..(i - 1) :
                      (positioned[j].placed /\ positioned[i].position > alignedPosition(i))
                        => positioned[i].position
                             >= positioned[j].position + positioned[j].height + marginUsed


(***************************************************************************)
(* The hover tooltip of a highlighted range (BlockComponentImproved).  The  *)
(* highlight effect replaces the span of the range by a new one whenever    *)
(* comments or activeCommentId change; the listeners are on the span.  A    *)
(* span that has been taken out of the document may or may not be sent      *)
(* mouseleave when the pointer goes away.                                   *)
(***************************************************************************)
HoverDelay == 300
HoverTickMs == 100
MaxHoverTicks == 6
MaxRebuilds == 2

HoverFrame ==
    UNCHANGED <<blocks, undoStack, redoStack, activeBlock, showSuggestions, lastKeyPressTime,
                nextId, scenes, pendingSync, lastOp, steps, lastEnter, mergeVars, layoutVars,
                commentVars, autosaveVars, loadVars, focusVars, panelVars>>

\* the timers left by clearTimeout(ref) followed by setTimeout at armed (0 = none set)
hoverTimersAfter(timers, ref, armed) ==
    (timers \ {ref}) \cup (IF armed = NoTimer THEN {} ELSE {armed})

\* mouseenter on the span in the document: handleHighlightHover
HighlightHover ==
    /\ ~pointerInside \/ enteredSpan # spanGeneration
    /\ pointerInside' = TRUE
    /\ enteredSpan' = spanGeneration
    /\ hoverSince' = IF pointerInside THEN hoverSince ELSE now
    /\ hoverTimeoutRef' = now + HoverDelay
    /\ hoverTimers' = hoverTimersAfter(hoverTimers, hoverTimeoutRef, now + HoverDelay)
    /\ UNCHANGED <<spanGeneration, tooltipVisible, now>>
    /\ HoverFrame

\* mouseleave reaches the span's listener: handleHighlightLeave
HighlightLeave ==
    /\ pointerInside
    /\ enteredSpan # 0
    /\ pointerInside' = FALSE
    /\ enteredSpan' = 0
    /\ hoverTimeoutRef' = NoTimer
    /\ hoverTimers' = hoverTimersAfter(hoverTimers, hoverTimeoutRef, NoTimer)
    /\ tooltipVisible' = FALSE
    /\ UNCHANGED <<spanGeneration, hoverSince, now>>
    /\ HoverFrame

\* the pointer goes away from a range whose entered span is no longer in the
\* document: no listener runs
PointerLeavesReplacedSpan ==
    /\ pointerInside
    /\ enteredSpan # spanGeneration
    /\ pointerInside' = FALSE
    /\ enteredSpan' = 0
    /\ UNCHANGED <<spanGeneration, hoverTimeoutRef, hoverTimers, tooltipVisible, hoverSince, now>>
    /\ HoverFrame

\* the highlight effect runs again: the spans are removed and created anew
HighlightsRebuilt ==
    /\ spanGeneration <= MaxRebuilds
    /\ spanGeneration' = spanGeneration + 1
    /\ UNCHANGED <<pointerInside, enteredSpan, hoverTimeoutRef, hoverTimers, tooltipVisible,
                   hoverSince, now>>
    /\ HoverFrame

\* the hover timeout fires: setTooltipState({visible: true, ...})
HoverTimerFires ==
    /\ \E t \in hoverTimers :
         /\ now >= t
         /\ hoverTimers' = hoverTimers \ {t}
    /\ tooltipVisible' = TRUE
    /\ UNCHANGED <<pointerInside, enteredSpan, spanGeneration, hoverTimeoutRef, hoverSince, now>>
    /\ HoverFrame

\* time passes; a timeout that is due fires before more time passes
HoverTick ==
    /\ now < StartTime + MaxHoverTicks * HoverTickMs
    /\ \A t \in hoverTimers : now < t
    /\ now' = now + HoverTickMs
    /\ UNCHANGED hoverVars
    /\ HoverFrame

InitHover ==
    /\ InitDocument(DefaultSceneDocuments)
    /\ MergeIdle
    /\ LayoutIdle
    /\ CommentsIdle
    /\ AutosaveIdle
    /\ UiIdle

NextHover ==
    \/ HighlightHover
    \/ HighlightLeave
    \/ PointerLeavesReplacedSpan
    \/ HighlightsRebuilt
    \/ HoverTimerFires
    \/ HoverTick

SpecHover == InitHover /\ [][NextHover]_vars

\* C34: the tooltip of a highlighted range becomes visible only after the
\* pointer has stayed on the range for 300 ms: leaving the range before the
\* timer fires cancels the timer so that no tooltip appears for that hover,
\* leaving while the tooltip is visible hides it immediately, and at most one
\* hover timer is pending at any time.
C34_TooltipOnlyAfterHoverDelay ==
    [][ /\ (~tooltipVisible /\ tooltipVisible')
            => (pointerInside /\ now >= hoverSince + HoverDelay)
        /\ (pointerInside /\ ~pointerInside')
            => (hoverTimers' = {} /\ ~tooltipVisible')
        /\ Cardinality(hoverTimers') <= 1 ]_vars

\* ---------------------------------------------------------------------------
\* Focus retry (useBlockFocusManagement.setFocusWithRetry)
\* ---------------------------------------------------------------------------

\* the default of the maxRetries parameter
maxRetries == 3
\* the factor of the backoff: delay = 10 * 2^count
backoffBase == 10
\* the clock step of the focus specification, in ms
FocusTickMs == 10
\* the focus requests are made in the first MaxFocusTicks clock steps
MaxFocusTicks == 2
\* ids 1..MaxFocusRequests are the ids of the blocks that are created and
\* focused; every caller passes the id it has just minted, so an id is
\* requested once
MaxFocusRequests == 2

FocusFrame ==
    UNCHANGED <<blocks, undoStack, redoStack, activeBlock, showSuggestions,
                lastKeyPressTime, nextId, scenes, pendingSync, lastOp, steps,
                lastEnter, mergeVars, layoutVars, commentVars, autosaveVars,
                loadVars, hoverVars, panelVars>>

RECURSIVE pow2(_)
pow2(n) == IF n = 0 THEN 1 ELSE 2 * pow2(n - 1)

\* a backoff that does not grow
backoffDelayFlat(count) == backoffBase * 2

\* const delay = 10 * Math.pow(2, focusAttempts.current[blockId])
backoffDelay(count) == backoffBase * pow2(count)

NoFocusLog == [delays |-> <<>>, focused |-> FALSE, gaveUp |-> FALSE]

extend(f, k, v) == [x \in DOMAIN f \cup {k} |-> IF x = k THEN v ELSE f[x]]

\* setFocusWithRetry(blockId): the counter is reset and attemptFocus is
\* handed to requestAnimationFrame, which runs it before the clock moves on
FocusRequest(blockId) ==
    /\ blockId \notin DOMAIN focusAttempts
    /\ now < StartTime + MaxFocusTicks * FocusTickMs
    /\ focusAttempts' = extend(focusAttempts, blockId, 0)
    /\ focusLog' = extend(focusLog, blockId, NoFocusLog)
    /\ focusTimers' = focusTimers \cup {[id |-> blockId, at |-> now, delay |-> 0]}
    /\ UNCHANGED <<now, blockRefs>>
    /\ FocusFrame

\* attemptFocus, run by the animation frame or by a timeout
AttemptFocus(cb) ==
    /\ cb \in focusTimers
    /\ now >= cb.at
    /\ LET id == cb.id
           seen == [focusLog[id] EXCEPT !.delays = Append(@, cb.delay)]
       IN IF id \notin blockRefs
          THEN IF focusAttempts[id] < maxRetries
               THEN /\ focusAttempts' = [focusAttempts EXCEPT ![id] = @ + 1]
                    /\ focusTimers' = (focusTimers \ {cb}) \cup
                          {[id |-> id,
                            at |-> now + backoffDelay(focusAttempts[id] + 1),
                            delay |-> backoffDelay(focusAttempts[id] + 1)]}
                    /\ focusLog' = [focusLog EXCEPT ![id] = seen]
               ELSE /\ focusTimers' = focusTimers \ {cb}
                    /\ focusLog' = [focusLog EXCEPT ![id] = [seen EXCEPT !.gaveUp = TRUE]]
                    /\ UNCHANGED focusAttempts
          ELSE /\ focusTimers' = focusTimers \ {cb}
               /\ focusLog' = [focusLog EXCEPT ![id] = [seen EXCEPT !.focused = TRUE]]
               /\ UNCHANGED focusAttempts
    /\ UNCHANGED <<now, blockRefs>>
    /\ FocusFrame

AttemptFocusRuns == \E cb \in focusTimers : AttemptFocus(cb)

\* the block's element is rendered: the ref callback stores it in blockRefs
ElementMounts(blockId) ==
    /\ blockId \in DOMAIN focusAttempts
    /\ blockId \notin blockRefs
    /\ blockRefs' = blockRefs \cup {blockId}
    /\ UNCHANGED <<now, focusAttempts, focusTimers, focusLog>>
    /\ FocusFrame

\* the clock moves on when no callback is due
FocusTick ==
    /\ \A cb \in focusTimers : now < cb.at
    /\ \/ now < StartTime + MaxFocusTicks * FocusTickMs
       \/ focusTimers # {}
    /\ now' = now + FocusTickMs
    /\ UNCHANGED focusVars
    /\ FocusFrame

InitFocus ==
    /\ InitDocument(DefaultSceneDocuments)
    /\ MergeIdle
    /\ LayoutIdle
    /\ CommentsIdle
    /\ AutosaveIdle
    /\ UiIdle

NextFocus ==
    \/ \E blockId \in 1..MaxFocusRequests : FocusRequest(blockId)
    \/ AttemptFocusRuns
    \/ \E blockId \in 1..MaxFocusRequests : ElementMounts(blockId)
    \/ FocusTick

\* the browser runs every callback that is due, and time passes
SpecFocus ==
    InitFocus /\ [][NextFocus]_vars /\ WF_vars(AttemptFocusRuns) /\ WF_vars(FocusTick)

timersOf(id) == {cb \in focusTimers : cb.id = id}

increasing(seq) == \A i \in 1..(Len(seq) - 1) : seq[i] < seq[i + 1]

focusRequestBounded(limit) ==
    \A id \in DOMAIN focusLog :
        /\ Len(focusLog[id].delays) <= limit
        /\ increasing(focusLog[id].delays)
        /\ Cardinality(timersOf(id)) <= 1
        /\ (focusLog[id].gaveUp \/ focusLog[id].focused) => timersOf(id) = {}
        /\ ~(focusLog[id].gaveUp /\ focusLog[id].focused)

focusRequestsTerminate ==
    \A id \in 1..MaxFocusRequests :
        (id \in DOMAIN focusLog)
            ~> (/\ id \in DOMAIN focusLog
                /\ timersOf(id) = {}
                /\ focusLog[id].gaveUp \/ focusLog[id].focused)

\* C35: when the element of the block to focus is not present, the focus
\* retry makes at most 3 attempts in total to find it, each after a longer
\* delay than the one before, then gives up without an error and without a
\* pending timer; every focus request terminates.
C35_AtMostThreeAttempts ==
    [](focusRequestBounded(maxRetries)) /\ focusRequestsTerminate

\* C35 as the code has it: one attempt on the next animation frame and at
\* most maxRetries = 3 retries after 20, 40 and 80 ms, four attempts in all.
C35_OneAttemptAndThreeRetries ==
    [](focusRequestBounded(maxRetries + 1)) /\ focusRequestsTerminate

C35_Witness ==
    \E id \in DOMAIN focusLog :
        /\ focusLog[id].gaveUp
        /\ id \notin blockRefs
        /\ focusLog[id].delays = <<0, 20, 40, 80>>
        /\ focusTimers = {}

\* ---------------------------------------------------------------------------
\* Scene reorder on a store that has been edited since it was loaded
\* ---------------------------------------------------------------------------

InitReorder == InitScenes

\* the navigator hands back the scenes of the store as it is now, in any order
NextReorder ==
    \/ MoreSteps /\ \E blockId \in IdsEver : Focus(blockId)
    \/ MoreSteps /\ \E i \in 1..Len(BLOCK_TYPES) : FormatChange(BLOCK_TYPES[i])
    \/ MoreSteps /\ \E order \in Orderings(headingIds(blocks)) : ScenesReordered(order)

SpecReorder == InitReorder /\ [][NextReorder]_vars

storeIds(bs) == [i \in 1..Len(bs) |-> bs[i].id]

\* C36: a scene reorder whose new order is a permutation of the store's scenes
\* never loses or duplicates a block: the resulting store holds exactly the
\* blocks of the input store, each once, blocks before the first scene-heading
\* block included.
C36_ReorderKeepsEveryBlock ==
    [][ (lastOp'.name = "reorder" /\ isPermutation(scenes', headingIds(blocks)))
          => isPermutation(storeIds(blocks'), storeIds(blocks)) ]_vars

\* ---------------------------------------------------------------------------
\* Comments anchored to blocks while the blocks are retyped or replaced
\* ---------------------------------------------------------------------------

\* one stored comment on every block of a set of block ids
commentsOn(ids) ==
    [i \in 1..Cardinality(ids) |->
        [id |-> i, blockId |-> ascending(ids)[i], isResolved |-> FALSE,
         replies |-> <<>>, reactions |-> <<>>]]

InitAnchors ==
    /\ \E sceneDocs \in FormatDocuments : InitDocument(sceneDocs)
    /\ MergeIdle
    /\ LayoutIdle
    /\ AutosaveIdle
    /\ UiIdle
    /\ \E ids \in SUBSET blockIds(blocks) : stateComments = commentsOn(ids)
    /\ rendered = stateComments
    /\ remote = <<>> /\ inflight = <<>>
    /\ submitHighlights = {}
    /\ nextCommentId = FirstCommentId
    /\ lastCall = NoCallDone
    /\ commentSteps = 0

NextAnchors ==
    \/ MoreSteps /\ \E blockId \in IdsEver : Focus(blockId)
    \/ MoreSteps /\ KeyDownTab
    \/ MoreSteps /\ \E i \in 1..Len(BLOCK_TYPES) : FormatChange(BLOCK_TYPES[i])
    \/ MoreSteps /\ \E blockId \in IdsEver, text \in EnterTexts :
         \E caretPos \in 0..Len(text) : KeyDownEnter(blockId, text, caretPos)

SpecAnchors == InitAnchors /\ [][NextAnchors]_vars

retypeOrReplaceStep ==
    \/ lastOp'.name \in {"tab", "format"} /\ lastOp'.found
    \/ enterStepOn("character") /\ enterOnBlankText

\* C37: an edit that replaces or retypes a block never detaches that block's
\* comments: after onTab/onFormatChange on a block (a retype into scene-heading
\* included) and after onEnter on an empty character block, every comment whose
\* blockId named that block before the operation names a block that is present
\* in the store after it.
C37_RetypeKeepsCommentsAttached ==
    [][ retypeOrReplaceStep =>
          \A i \in 1..Len(stateComments) :
              stateComments[i].blockId = lastOp'.id
                 => stateComments'[i].blockId \in blockIds(blocks') ]_vars

\* a run of onTab, onFormatChange or onContentChange that has completed (no
\* update of it is still to be applied) and has left the store as it was
storeKeptBy(names) ==
    /\ lastOp'.name \in names
    /\ steps' # steps
    /\ pendingSync' = pendingSync
    /\ blocks' = blocks

\* C38: an operation that leaves the Block Store unchanged also leaves the undo
\* and redo stacks unchanged: onTab/onFormatChange whose active block id is not
\* in the store, and onContentChange whose new text and resulting type equal
\* the block's current text and type, push no snapshot and do not clear the
\* redo stack.
C38_NoChangeNoHistory ==
    [][ storeKeptBy({"tab", "format", "content"})
          => (undoStack' = undoStack /\ redoStack' = redoStack) ]_vars

\* the (userId, emoji) pairs of a comment other than the pair a reaction call toggles
otherPairs(cs, call) ==
    pairsOf(reactionsOf(cs, call.id)) \ {<<call.item.userId, call.item.emoji>>}

\* a reaction call fails while no other reaction call on its comment is in
\* flight and the other pairs of the comment are the ones that are persisted
reactionFailsAfterOthersSucceeded ==
    /\ lastCall'.name = "react-fail"
    /\ findComment(stateComments, lastCall'.call.id) # 0
    /\ findComment(remote, lastCall'.call.id) # 0
    /\ \A i \in 1..Len(inflight') :
          ~(inflight'[i].op = "react" /\ inflight'[i].id = lastCall'.call.id)
    /\ otherPairs(stateComments, lastCall'.call) = otherPairs(remote, lastCall'.call)

\* C39: when the persistence call of a reaction toggle fails, only that
\* toggle's own effect is undone: reactions that other toggles added to or
\* removed from the same comment after it was applied, and whose persistence
\* succeeded, are still added or removed after the rollback.
C39_RollbackUndoesOnlyOwnToggle ==
    [][ reactionFailsAfterOthersSucceeded
          => otherPairs(stateComments', lastCall'.call)
                = otherPairs(stateComments, lastCall'.call) ]_vars

\* ---------------------------------------------------------------------------
\* Comments panel: the filtered list (filterComments of the panel component)
\* ---------------------------------------------------------------------------

MaxPanelComments == 2
MaxReplies == 2

PanelFrame ==
    UNCHANGED <<editorVars, mergeVars, layoutVars, rendered, remote, inflight,
                submitHighlights, nextCommentId, lastCall, commentSteps,
                autosaveVars, loadVars, hoverVars, focusVars>>

Reply(id, isResolved) == [id |-> id, isResolved |-> isResolved, replies |-> <<>>]

\* the reply lists a stored comment can hold
ReplyLists ==
    UNION { { [i \in 1..n |-> Reply(i, flags[i])] : flags \in [1..n -> BOOLEAN] } :
            n \in 0..MaxReplies }

\* the comment lists fetchComments can deliver
PanelComments ==
    UNION { { [i \in 1..n |-> [NewComment(i) EXCEPT !.isResolved = choice[i][1],
                                                    !.replies = choice[i][2]]] :
                choice \in [1..n -> BOOLEAN \X ReplyLists] } :
            n \in 0..MaxPanelComments }

\* shouldInclude, with filterByActiveBlock at its initial value false
shouldInclude(comment, show) == show \/ ~comment.isResolved

\* comment.replies.filter(reply => showResolved || !reply.isResolved)
filterReplies(replies, show) == SelectSeq(replies, LAMBDA reply : show \/ ~reply.isResolved)

\* the comment objects after filterComments has run over them: the callback
\* assigns the filtered replies to comment.replies of every included comment
commentsAfterFilter(cs, show) ==
    [i \in 1..Len(cs) |->
        IF shouldInclude(cs[i], show) /\ Len(cs[i].replies) > 0
        THEN [cs[i] EXCEPT !.replies = filterReplies(cs[i].replies, show)]
        ELSE cs[i]]

\* filterComments(comments): the included comments, as the callback left them
filterComments(cs, show) ==
    SelectSeq(commentsAfterFilter(cs, show), LAMBDA comment : shouldInclude(comment, show))

\* the panel renders comments cs with showResolved = show
PanelRenders(cs, show) ==
    /\ stateComments' = commentsAfterFilter(cs, show)
    /\ filteredComments' = filterComments(cs, show)
    /\ showResolved' = show

\* fetchComments delivers the stored comments and the panel renders them
CommentsDelivered(cs) ==
    /\ PanelRenders(cs, showResolved)
    /\ shownBefore' = IF showResolved THEN <<filteredComments'>> ELSE <<>>
    /\ lastPanel' = [name |-> "delivered", delivered |-> cs]
    /\ PanelFrame

\* onClick={() => setShowResolved(!showResolved)} and the render that follows
ToggleShowResolved ==
    /\ PanelRenders(stateComments, ~showResolved)
    /\ shownBefore' = IF showResolved' THEN <<filteredComments'>> ELSE shownBefore
    /\ lastPanel' = [name |-> "toggle", delivered |-> lastPanel.delivered]
    /\ PanelFrame

InitPanel ==
    /\ InitDocument(DefaultSceneDocuments)
    /\ MergeIdle
    /\ LayoutIdle
    /\ CommentsIdle
    /\ AutosaveIdle
    /\ UiIdle

NextPanel ==
    \/ \E cs \in PanelComments : CommentsDelivered(cs)
    \/ ToggleShowResolved

SpecPanel == InitPanel /\ [][NextPanel]_vars

\* C40: comment filtering is a pure view of the Comment Anchor Store: computing
\* the filtered list with showResolved off does not modify any stored comment
\* or its replies, so turning showResolved off and then on again shows exactly
\* the comments and replies that were shown before, resolved replies included.
C40_FilterIsPureView ==
    [][ /\ (lastPanel'.name = "delivered" /\ ~showResolved')
            => stateComments' = lastPanel'.delivered
        /\ (lastPanel'.name = "toggle" /\ ~showResolved')
            => stateComments' = stateComments
        /\ (lastPanel'.name = "toggle" /\ showResolved' /\ shownBefore # <<>>)
            => filteredComments' = shownBefore[1] ]_vars

====
